---- MODULE Spec2Model ----
(***************************************************************************)
(* Discord channel crawler (browser extension).                            *)
(*   background service worker : crawlState, the message handlers and the  *)
(*                               tab listeners, the IndexedDB manager      *)
(*   content script            : ScraperService, one instance per tab      *)
(* Every await of a handler is a point where other handlers may run, so a  *)
(* handler with awaits is modelled as one action per segment between two   *)
(* awaits; handlers without awaits are one action.                         *)
(***************************************************************************)
EXTENDS Integers, Sequences, FiniteSets, Bags, TLC

Null == "null"
NoUser == 0

\* ------------------------------------------------------------------ bounds
MaxEvents == 2           \* start requests, tab events and storage failures
MaxTime == 2             \* last value of the wall clock read by new Date()
ElemHeight == 40         \* rendered height of one message element (px)
ClientHeight == 25       \* visible height of the scroll container (px)
LongLen == 11            \* number of messages of the long channel

\* ------------------------------------------------------- program constants
NO_NEW_MESSAGES_THRESHOLD == 3
TopTolerance == 10
StatusEvery == 10
ScrollPercent == 80

Tabs == {1, 2}
StartSlots == {1, 2}

\* The pages a tab can show.  "ext" is a page outside discord.com, "home" a
\* discord.com page that is no channel, "chA" and "chB" are channel pages
\* https://discord.com/channels/<server>/<channel>.  "closed": the tab is gone.
Urls == {"ext", "home", "chA", "chB"}
\* "chL" is the page of a channel with a long history
LongChannel == "chL"
Closed == "closed"

\* tab.url.includes('discord.com')
IncludesDiscord(u) == u \in {"home", "chA", "chB", LongChannel}

\* url.match(/discord\.com\/channels\/(\d+)\/(\d+)/)
ExtractIdsFromUrl(u) ==
  CASE u = "chA" -> [server_id |-> "s1", channel_id |-> "cA"]
    [] u = "chB" -> [server_id |-> "s1", channel_id |-> "cB"]
    [] u = LongChannel -> [server_id |-> "s1", channel_id |-> "cL"]
    [] OTHER -> [server_id |-> Null, channel_id |-> Null]

\* document.querySelector(...) ?.textContent: a channel page shows its names
ExtractServerName(u) ==
  IF u \in {"chA", "chB", LongChannel} THEN "server-s1" ELSE Null
ExtractChannelName(u) ==
  CASE u = "chA" -> "name-cA" [] u = "chB" -> "name-cB"
    [] u = LongChannel -> "name-cL" [] OTHER -> Null

\* The content script runs on discord.com pages only.
HasContentScript(u) == IncludesDiscord(u)

\* div[class*="scroller_"][class*="managedReactiveScroller_"] exists on a
\* channel page only.
FindScrollContainer(u) == u \in {"chA", "chB", LongChannel}

\* ------------------------------------------------------------------- DOM
\* The channel history, oldest first.  An element is the <li> of a message:
\* chan and msg are the two numbers of its id chat-messages-<chan>-<msg>,
\* hdr says whether it carries an author header, uid is the user id its
\* avatar resolves to (NoUser: none).  The last two elements carry the same
\* message number under two channel prefixes.
History ==
  << [chan |-> 7, msg |-> 1, hdr |-> TRUE,  uid |-> 1],
     [chan |-> 7, msg |-> 2, hdr |-> TRUE,  uid |-> 2],
     [chan |-> 8, msg |-> 2, hdr |-> FALSE, uid |-> NoUser] >>

\* The history of the long channel: LongLen messages of one author, every
\* other one grouped under the header of the one before.
LongHistory ==
  [i \in 1..LongLen |->
     [chan |-> 9, msg |-> i, hdr |-> i % 2 = 1, uid |-> IF i % 2 = 1 THEN 1 ELSE NoUser]]

HistoryOf(u) == IF u = LongChannel THEN LongHistory ELSE History

\* What a freshly loaded page shows: channel A its two newest messages,
\* channel B nothing yet, the long channel all but its oldest message.
PageRendered(u) ==
  CASE u = "chA" -> 2 [] u = LongChannel -> LongLen - 1 [] OTHER -> 0

\* The virtualised list shows the newest r elements of the history.
Dom(u, r) ==
  IF FindScrollContainer(u)
    THEN SubSeq(HistoryOf(u), Len(HistoryOf(u)) - r + 1, Len(HistoryOf(u)))
    ELSE << >>

ScrollHeight(r) == ElemHeight * r
Max(a, b) == IF a >= b THEN a ELSE b
Min(a, b) == IF a <= b THEN a ELSE b
\* the browser clamps scrollTop to [0, scrollHeight - clientHeight]
ClampScroll(r, y) == Max(0, Min(y, ScrollHeight(r) - ClientHeight))

\* ------------------------------------------------------------- extraction
\* id.match(/^chat-messages-\d+-(\d+)$/)[1]
ExtractMessageId(el) == el.msg

NullParse == [isNull |-> TRUE, message_id |-> 0, user_id |-> NoUser, user |-> NoUser]

\* parseMessage without the processedMessageIds check
ParseMessageNoDedup(processed, el, lastSeenAuthorId) ==
  LET user_id == IF el.hdr THEN el.uid ELSE lastSeenAuthorId
  IN [isNull |-> FALSE, message_id |-> ExtractMessageId(el),
      user_id |-> user_id, user |-> user_id]

\* parseMessage that leaves a message without header without author
ParseMessageUngrouped(processed, el, lastSeenAuthorId) ==
  IF ExtractMessageId(el) \in processed
    THEN NullParse
    ELSE LET user_id == IF el.hdr THEN el.uid ELSE NoUser
         IN [isNull |-> FALSE, message_id |-> ExtractMessageId(el),
             user_id |-> user_id, user |-> user_id]

\* parseMessage(element, lastSeenAuthorId): NullParse stands for null;
\* user is the user_id of the user record, NoUser when there is none.
ParseMessage(processed, el, lastSeenAuthorId) ==
  IF ExtractMessageId(el) \in processed
    THEN NullParse
    ELSE LET user_id == IF el.hdr THEN el.uid ELSE lastSeenAuthorId
         IN [isNull |-> FALSE, message_id |-> ExtractMessageId(el),
             user_id |-> user_id, user |-> user_id]

InSeq(x, s) == \E i \in 1..Len(s) : s[i] = x

\* parseMessage(el) throws once it is past its check of processedMessageIds
\* and before it adds the id (an element of the page the extractors cannot
\* read)
Throws(el) == "throws" \in DOMAIN el /\ el.throws

\* the loop iteration with a parseMessage that sends no status update
ExtractStepNoPush(acc, el, channel_id) ==
  LET parsed == ParseMessage(acc.processed, el, acc.last) IN
  IF parsed.isNull \/ Throws(el) THEN acc
  ELSE
    LET proc == acc.processed \cup {parsed.message_id}
        m == [message_id |-> parsed.message_id, channel_id |-> channel_id,
              user_id |-> parsed.user_id]
    IN [threw |-> acc.threw, messages |-> Append(acc.messages, m),
        users |-> IF parsed.user # NoUser /\ ~InSeq(parsed.user, acc.users)
                    THEN Append(acc.users, parsed.user) ELSE acc.users,
        processed |-> proc,
        last |-> IF parsed.user_id # NoUser THEN parsed.user_id ELSE acc.last,
        pushes |-> acc.pushes]

\* the loop iteration that takes the user_id of every message, null
\* included, as the last seen author
ExtractStepLastOfAny(acc, el, channel_id) ==
  LET parsed == ParseMessage(acc.processed, el, acc.last) IN
  IF parsed.isNull \/ Throws(el) THEN acc
  ELSE
    LET proc == acc.processed \cup {parsed.message_id}
        m == [message_id |-> parsed.message_id, channel_id |-> channel_id,
              user_id |-> parsed.user_id]
    IN [threw |-> acc.threw, messages |-> Append(acc.messages, m),
        users |-> IF parsed.user # NoUser /\ ~InSeq(parsed.user, acc.users)
                    THEN Append(acc.users, parsed.user) ELSE acc.users,
        processed |-> proc,
        last |-> parsed.user_id,
        pushes |-> IF Cardinality(proc) % StatusEvery = 0
                     THEN Append(acc.pushes, Cardinality(proc)) ELSE acc.pushes]

\* the loop iteration without its try and catch: an exception of
\* parseMessage leaves the forEach, and the pass with it
ExtractStepUncaught(acc, el, channel_id) ==
  LET parsed == ParseMessage(acc.processed, el, acc.last) IN
  IF acc.threw \/ parsed.isNull THEN acc
  ELSE IF Throws(el) THEN [acc EXCEPT !.threw = TRUE]
  ELSE
    LET proc == acc.processed \cup {parsed.message_id}
        m == [message_id |-> parsed.message_id, channel_id |-> channel_id,
              user_id |-> parsed.user_id]
    IN [threw |-> acc.threw, messages |-> Append(acc.messages, m),
        users |-> IF parsed.user # NoUser /\ ~InSeq(parsed.user, acc.users)
                    THEN Append(acc.users, parsed.user) ELSE acc.users,
        processed |-> proc,
        last |-> IF parsed.user_id # NoUser THEN parsed.user_id ELSE acc.last,
        pushes |-> IF Cardinality(proc) % StatusEvery = 0
                     THEN Append(acc.pushes, Cardinality(proc)) ELSE acc.pushes]

\* the loop iteration without the !users.has(parsed.user.user_id) test
ExtractStepNoDedup(acc, el, channel_id) ==
  LET parsed == ParseMessage(acc.processed, el, acc.last) IN
  IF parsed.isNull \/ Throws(el) THEN acc
  ELSE
    LET proc == acc.processed \cup {parsed.message_id}
        m == [message_id |-> parsed.message_id, channel_id |-> channel_id,
              user_id |-> parsed.user_id]
    IN [threw |-> acc.threw, messages |-> Append(acc.messages, m),
        users |-> IF parsed.user # NoUser
                    THEN Append(acc.users, parsed.user) ELSE acc.users,
        processed |-> proc,
        last |-> IF parsed.user_id # NoUser THEN parsed.user_id ELSE acc.last,
        pushes |-> IF Cardinality(proc) % StatusEvery = 0
                     THEN Append(acc.pushes, Cardinality(proc)) ELSE acc.pushes]

\* One iteration of the loop of extractExistingMessages() over the <li>
\* elements.  acc = [messages, users, processed, last, pushes]; pushes are the
\* message counts of the status updates parseMessage sends (every StatusEvery
\* ids).
ExtractStep(acc, el, channel_id) ==
  LET parsed == ParseMessage(acc.processed, el, acc.last) IN
  IF parsed.isNull \/ Throws(el) THEN acc
  ELSE
    LET proc == acc.processed \cup {parsed.message_id}
        m == [message_id |-> parsed.message_id, channel_id |-> channel_id,
              user_id |-> parsed.user_id]
    IN [threw |-> acc.threw, messages |-> Append(acc.messages, m),
        users |-> IF parsed.user # NoUser /\ ~InSeq(parsed.user, acc.users)
                    THEN Append(acc.users, parsed.user) ELSE acc.users,
        processed |-> proc,
        last |-> IF parsed.user_id # NoUser THEN parsed.user_id ELSE acc.last,
        pushes |-> IF Cardinality(proc) % StatusEvery = 0
                     THEN Append(acc.pushes, Cardinality(proc)) ELSE acc.pushes]

\* The loop from element i on.  The accumulator is bound as a (a \in {acc}),
\* which evaluates it once per iteration.
RECURSIVE ExtractFrom(_, _, _, _)
ExtractFrom(dom, i, acc, channel_id) ==
  IF i > Len(dom) THEN acc
  ELSE CHOOSE r \in {ExtractFrom(dom, i + 1, ExtractStep(a, dom[i], channel_id),
                                 channel_id) : a \in {acc}} : TRUE

ExtractExistingMessages(processed, dom, channel_id) ==
  ExtractFrom(dom, 1,
    [threw |-> FALSE, messages |-> << >>, users |-> << >>, processed |-> processed,
     last |-> NoUser, pushes |-> << >>], channel_id)

\* ------------------------------------------------------------------ state
VARIABLES
  url,         \* url[t]: the page tab t shows, or Closed
  scr,         \* scr[t]: the ScraperService of the content script in tab t,
               \*         with the scroll container of its page
  outbox,      \* outbox[t]: chrome.runtime.sendMessage calls of tab t's content
               \*            script the background has not handled yet (FIFO)
  crawlState,  \* the background's crawlState
  startReq,    \* startReq[r]: a startCrawl handler of the background
  stopReq,     \* the stopCrawl handler of the background
  db,          \* the IndexedDB stores
  now,         \* the wall clock
  events,      \* number of start requests, tab events and storage failures
  call,        \* the last call of a store or export function made on its own,
               \* with its arguments and its result
  popup,       \* number of crawlStatusChanged messages the background has
               \* sent to the popup
  saveResp     \* the response of the last saveToIndexedDB handler

vars ==
  << url, scr, outbox, crawlState, startReq, stopReq, db, now, events, call, popup,
     saveResp >>

NoCall == [op |-> "none"]

\* --------------------------------------------------------------- messages
\* A message of the content script to the background.  isCrawling and
\* messageCount are "undef" / -1 when the request does not carry them.
StatusMsg(isCrawling, channelId, channelName, serverName, messageCount) ==
  [action |-> "updateCrawlStatus", isCrawling |-> isCrawling,
   channelId |-> channelId, channelName |-> channelName,
   serverName |-> serverName, messageCount |-> messageCount,
   updateLastCrawled |-> FALSE, server_id |-> Null,
   users |-> << >>, messages |-> << >>]

SaveMsg(server_id, serverName, channelId, channelName, users, messages) ==
  [action |-> "saveToIndexedDB", isCrawling |-> "undef",
   channelId |-> channelId, channelName |-> channelName,
   serverName |-> serverName, messageCount |-> -1,
   updateLastCrawled |-> TRUE, server_id |-> server_id,
   users |-> users, messages |-> messages]

\* ---------------------------------------------------------- ScraperService
\* A pending timer.  n is the id of a cycle timer and the beforeCount of a
\* settle timer; c is a history field: the noNewMessagesCount at the start
\* of the scroll step a settle timer belongs to.
Timer(kind, n) == [kind |-> kind, n |-> n, c |-> 0]
OneTimer(kind, n) == SetToBag({Timer(kind, n)})
SettleTimer(beforeCount, c) == SetToBag({[kind |-> "settle", n |-> beforeCount, c |-> c]})
CycleIds(timers) == {tm.n : tm \in {x \in BagToSet(timers) : x.kind = "cycle"}}
\* setTimeout returns an id no pending timer has
NewTimerId(timers) ==
  CHOOSE n \in 1..(Cardinality(CycleIds(timers)) + 1) :
    n \notin CycleIds(timers) /\ \A k \in 1..(n - 1) : k \in CycleIds(timers)

\* new ScraperService() on a freshly loaded page showing r elements.
\* earlier, forwarded, firstScroll and stoppedBy are history fields:
\*   earlier     ids processed in earlier sessions of this instance
\*   forwarded   message ids of the records sent to the background in the
\*               current session, in order
\*   firstScroll the first scroll action of the current session
\*   stoppedBy   who ended the last session ("self": the scroll loop)
NewScraper(u) ==
  LET r == PageRendered(u) IN
  [isCrawling |-> FALSE, processedMessageIds |-> {}, scrollInterval |-> 0,
   lastMessageCount |-> 0, noNewMessagesCount |-> 0, timers |-> EmptyBag,
   rendered |-> r,
   scrollTop |-> ClampScroll(r, ScrollHeight(r)),
   earlier |-> {}, forwarded |-> << >>,
   firstScroll |-> "none", stoppedBy |-> "none"]

\* updateContext(): the status update it sends while crawling
UpdateContext(s, u) ==
  IF s.isCrawling
    THEN << StatusMsg("undef", ExtractIdsFromUrl(u).channel_id, ExtractChannelName(u),
                      ExtractServerName(u), Cardinality(s.processedMessageIds)) >>
    ELSE << >>

\* scrollToBottom(): container.scrollTop = container.scrollHeight
ScrollToBottom(s, u) ==
  IF FindScrollContainer(u)
    THEN [s EXCEPT !.scrollTop = ClampScroll(s.rendered, ScrollHeight(s.rendered)),
                   !.firstScroll = IF @ = "none" THEN "bottom" ELSE @]
    ELSE s

\* Scroll positions are computed in hundredths of a pixel.
\* scrollUp() without its Math.max
NewScrollBelowZero(currentScroll, clientHeight) ==
  currentScroll - ScrollPercent * clientHeight

\* newScroll = Math.max(0, currentScroll - container.clientHeight * 0.8)
NewScroll(currentScroll, clientHeight) ==
  Max(0, currentScroll - ScrollPercent * clientHeight)

\* container.scrollTop = value: the browser keeps the position at or above
\* 0 and, depending on the build and the display, keeps the fraction,
\* drops it or rounds to the nearest pixel.
SnapModes == {"none", "floor", "nearest"}
SetScrollTop(value, snap) ==
  Max(0, CASE snap = "floor" -> 100 * (value \div 100)
           [] snap = "nearest" -> 100 * ((value + 50) \div 100)
           [] OTHER -> value)

\* scrollUp(): newScroll = Math.max(0, currentScroll - scrollAmount)
ScrollUp(s, u) ==
  IF FindScrollContainer(u)
    THEN [s EXCEPT !.scrollTop =
                     SetScrollTop(NewScroll(100 * s.scrollTop, ClientHeight), "floor") \div 100,
                   !.firstScroll = IF @ = "none" THEN "up" ELSE @]
    ELSE s

\* startAutoScrolling(): the 1000 ms timer is the "init" timer
StartAutoScrolling(s, u) ==
  IF s.scrollInterval # 0
    THEN s
    ELSE [ScrollToBottom(s, u) EXCEPT !.timers = @ (+) OneTimer("init", 0)]

\* stopAutoScrolling(): clearTimeout(this.scrollInterval)
StopAutoScrolling(s) ==
  IF s.scrollInterval # 0
    THEN [s EXCEPT !.timers = @ (-) OneTimer("cycle", s.scrollInterval),
                   !.scrollInterval = 0]
    ELSE s

\* stopCrawling() without its if (!this.isCrawling) return
StopCrawlingNoGuard(s, by) ==
  [s |-> [StopAutoScrolling([s EXCEPT !.isCrawling = FALSE])
            EXCEPT !.stoppedBy = by],
   out |-> << StatusMsg("false", Null, Null, Null, -1) >>]

\* stopCrawling(): returns the new scraper and the messages it sends
StopCrawling(s, by) ==
  IF ~s.isCrawling
    THEN [s |-> s, out |-> << >>]
    ELSE [s |-> [StopAutoScrolling([s EXCEPT !.isCrawling = FALSE])
                   EXCEPT !.stoppedBy = by],
          out |-> << StatusMsg("false", Null, Null, Null, -1) >>]

\* this.processedMessageIds.clear() left out
KeepProcessed(processed) == processed

\* this.processedMessageIds.clear()
ClearProcessed(processed) == {}

PushMsg(n) == StatusMsg("undef", Null, Null, Null, n)

\* startCrawling(): returns the new scraper and the messages it sends
StartCrawling(s, u) ==
  IF s.isCrawling
    THEN [s |-> s, out |-> << >>]
    ELSE
      LET s1 == [s EXCEPT !.isCrawling = TRUE,
                          !.processedMessageIds = ClearProcessed(@),
                          !.earlier = @ \cup s.processedMessageIds,
                          !.forwarded = << >>,
                          !.firstScroll = "none",
                          !.stoppedBy = "none"]
          ids == ExtractIdsFromUrl(u)
          existing == ExtractExistingMessages(s1.processedMessageIds,
                                              Dom(u, s.rendered), ids.channel_id)
          s2 == [s1 EXCEPT !.processedMessageIds = existing.processed,
                           !.forwarded = [i \in 1..Len(existing.messages) |->
                                           existing.messages[i].message_id]]
          save == IF Len(existing.messages) > 0
                    THEN << SaveMsg(ids.server_id, ExtractServerName(u),
                                    ids.channel_id, ExtractChannelName(u),
                                    existing.users, existing.messages) >>
                    ELSE << >>
      IN [s |-> StartAutoScrolling(s2, u),
          out |-> UpdateContext(s1, u)
                 \o [i \in 1..Len(existing.pushes) |-> PushMsg(existing.pushes[i])]
                 \o save]

\* the callback of the 1000 ms timer of startAutoScrolling
InitCallback(s) ==
  LET id == NewTimerId(s.timers)
  IN [s EXCEPT !.lastMessageCount = Cardinality(s.processedMessageIds),
               !.noNewMessagesCount = 0,
               !.timers = (@ (-) OneTimer("init", 0)) (+) OneTimer("cycle", id),
               !.scrollInterval = id]

\* performScrollCycle without the isCrawling test at its top
PerformScrollCycleNoCheck(s, u, id) ==
  LET s0 == [s EXCEPT !.timers = @ (-) OneTimer("cycle", id)]
      beforeCount == Cardinality(s0.processedMessageIds)
      scrolled == FindScrollContainer(u)
      s1 == ScrollUp(s0, u)
      s2 == IF scrolled THEN s1
            ELSE [s1 EXCEPT !.noNewMessagesCount = @ + 1]
  IN IF ~scrolled /\ s2.noNewMessagesCount >= NO_NEW_MESSAGES_THRESHOLD
       THEN StopCrawling(s2, "self")
       ELSE [s |-> [s2 EXCEPT !.timers = @ (+) SettleTimer(beforeCount, s0.noNewMessagesCount)],
             out |-> << >>]

\* performScrollCycle, up to its setTimeout: the timer with this id fired
PerformScrollCycle(s, u, id) ==
  LET s0 == [s EXCEPT !.timers = @ (-) OneTimer("cycle", id)] IN
  IF ~s0.isCrawling
    THEN [s |-> StopAutoScrolling(s0), out |-> << >>]
    ELSE
      LET beforeCount == Cardinality(s0.processedMessageIds)
          scrolled == FindScrollContainer(u)
          s1 == ScrollUp(s0, u)
          s2 == IF scrolled THEN s1
                ELSE [s1 EXCEPT !.noNewMessagesCount = @ + 1]
      IN IF ~scrolled /\ s2.noNewMessagesCount >= NO_NEW_MESSAGES_THRESHOLD
           THEN StopCrawling(s2, "self")
           ELSE [s |-> [s2 EXCEPT !.timers = @ (+) SettleTimer(beforeCount, s0.noNewMessagesCount)],
                 out |-> << >>]

\* the position test left out
IsAtTopAlways(s, u) == TRUE

\* the position test of the settle callback: container && scrollTop <= 10
IsAtTop(s, u) == FindScrollContainer(u) /\ s.scrollTop <= TopTolerance

\* the settle callback returning at the threshold without stopCrawling()
SettleCallbackNoStop(s, u, beforeCount, c) ==
  LET s0 == [s EXCEPT !.timers = @ (-) SettleTimer(beforeCount, c)]
      afterCount == Cardinality(s0.processedMessageIds)
      s1 == IF afterCount = beforeCount
              THEN [s0 EXCEPT !.noNewMessagesCount = @ + 1]
              ELSE [s0 EXCEPT !.noNewMessagesCount = 0,
                              !.lastMessageCount = afterCount]
  IN IF afterCount = beforeCount
        /\ s1.noNewMessagesCount >= NO_NEW_MESSAGES_THRESHOLD /\ IsAtTop(s1, u)
       THEN [s |-> s1, out |-> << >>]
       ELSE IF s1.isCrawling
         THEN LET id == NewTimerId(s1.timers)
              IN [s |-> [s1 EXCEPT !.timers = @ (+) OneTimer("cycle", id),
                                   !.scrollInterval = id],
                  out |-> << >>]
         ELSE [s |-> s1, out |-> << >>]

\* the callback of the settle timer of performScrollCycle
SettleCallback(s, u, beforeCount, c) ==
  LET s0 == [s EXCEPT !.timers = @ (-) SettleTimer(beforeCount, c)]
      afterCount == Cardinality(s0.processedMessageIds)
      s1 == IF afterCount = beforeCount
              THEN [s0 EXCEPT !.noNewMessagesCount = @ + 1]
              ELSE [s0 EXCEPT !.noNewMessagesCount = 0,
                              !.lastMessageCount = afterCount]
  IN IF afterCount = beforeCount
        /\ s1.noNewMessagesCount >= NO_NEW_MESSAGES_THRESHOLD /\ IsAtTop(s1, u)
       THEN StopCrawling(s1, "self")
       ELSE IF s1.isCrawling
         THEN LET id == NewTimerId(s1.timers)
              IN [s |-> [s1 EXCEPT !.timers = @ (+) OneTimer("cycle", id),
                                   !.scrollInterval = id],
                  out |-> << >>]
         ELSE [s |-> s1, out |-> << >>]

\* -------------------------------------------------------- IndexedDBManager
ChannelIds == {"cA", "cB", "cL"}
NoChannel == [exists |-> FALSE, server_id |-> Null, channel_name |-> Null,
              last_crawled_at |-> 0]
Undefined == -1

ChannelFields == {"server_id", "channel_name", "last_crawled_at"}

\* storeChannel putting the incoming record as it is, without the merge
StoreChannelReplace(channels, id, channel) ==
  LET Put(f) == IF f \in DOMAIN channel THEN channel[f] ELSE Null
  IN [channels EXCEPT ![id] =
        [exists |-> TRUE, server_id |-> Put("server_id"),
         channel_name |-> Put("channel_name"),
         last_crawled_at |-> IF "last_crawled_at" \in DOMAIN channel
                               THEN channel.last_crawled_at ELSE 0]]

\* storeChannel putting the stored last_crawled_at whatever the incoming one
StoreChannelKeepStamp(channels, id, channel) ==
  LET existing == channels[id]
      Merged(f) == IF f \in DOMAIN channel THEN channel[f] ELSE existing[f]
  IN [channels EXCEPT ![id] =
        [exists |-> TRUE, server_id |-> Merged("server_id"),
         channel_name |-> Merged("channel_name"),
         last_crawled_at |-> existing.last_crawled_at]]

\* storeChannel(channel): read, merge, put.  channel is the incoming record
\* without its key id; a field it does not carry is outside DOMAIN channel.
\* A field the stored record lacks reads Null, and 0 stands for the null of
\* last_crawled_at.
StoreChannel(channels, id, channel) ==
  LET existing == channels[id]
      Merged(f) == IF f \in DOMAIN channel THEN channel[f] ELSE existing[f]
  IN [channels EXCEPT ![id] =
        [exists |-> TRUE, server_id |-> Merged("server_id"),
         channel_name |-> Merged("channel_name"),
         last_crawled_at |-> IF "last_crawled_at" \in DOMAIN channel
                               THEN channel.last_crawled_at
                               ELSE existing.last_crawled_at]]

\* The batch writes put every record of the batch in one readwrite
\* transaction.  k = 0: every put succeeds.  Otherwise the put of the k-th
\* record fails, in one of the two ways a put can fail:
\*   "error": the request gets an error event.  request.onerror counts it and
\*            does not call preventDefault(), so the transaction aborts: the
\*            puts made so far are undone, and every request still pending
\*            gets an error event of its own, which onerror counts too.
\*   "throw": store.put() throws.  The exception leaves forEach and the
\*            executor, the promise rejects with it, the records after k are
\*            never put, and the transaction commits the puts made before.
\* The result: the store afterwards, the indexes of the records put() was
\* called on, whether the promise rejects, and the count its message carries
\* (Undefined when it rejects with the exception of put()).
FailModes == {"error", "throw"}

\* all: the store with every valid record put; part: with those before k.
BatchResult(before, all, part, valid, k, mode) ==
  IF k = 0
    THEN [store |-> all, attempted |-> valid, rejected |-> FALSE, errors |-> 0]
  ELSE IF mode = "throw"
    THEN [store |-> part, attempted |-> {i \in valid : i <= k},
          rejected |-> TRUE, errors |-> Undefined]
    ELSE [store |-> before, attempted |-> valid,
          rejected |-> TRUE, errors |-> Cardinality({i \in valid : i >= k})]

\* storeUsers(users): a record without user_id is skipped
StoreUsers(users, batch, k, mode) ==
  LET valid == {i \in 1..Len(batch) : batch[i] # NoUser}
      PutAll(S) == users \cup {batch[i] : i \in S}
  IN BatchResult(users, PutAll(valid), PutAll({i \in valid : i < k}), valid, k, mode)

\* storeMessages(messages): a put replaces the record with the same message_id
StoreMessages(messages, batch, k, mode) ==
  LET valid == {i \in 1..Len(batch) : batch[i].message_id # 0}
      PutAll(S) ==
        LET put == {batch[i] : i \in S}
        IN {m \in messages : \A q \in put : q.message_id # m.message_id} \cup put
  IN BatchResult(messages, PutAll(valid), PutAll({i \in valid : i < k}), valid, k, mode)

\* ------------------------------------------------------------- background
IdleCrawlState ==
  [isCrawling |-> FALSE, currentTabId |-> 0, currentChannel |-> Null,
   currentChannelName |-> Null, currentServerName |-> Null, messageCount |-> 0]

\* a reset that leaves the crawl slot as it is
ResetCrawlStateBusy(cs) == [IdleCrawlState EXCEPT !.isCrawling = cs.isCrawling]

\* resetCrawlState()
ResetCrawlState(cs) == IdleCrawlState

IdleReq == [pc |-> "idle", tab |-> 0, resp |-> "none", overlap |-> FALSE]
\* target and stamped are history fields: the channel of the page the crawling
\* tab shows when the handler starts, and whether its storeChannel succeeded
IdleStop == [pc |-> "idle", tab |-> 0, chan |-> Null, stamp |-> 0, resp |-> "none",
             target |-> Null, stamped |-> FALSE]

\* the stopCrawl handler as it starts
NewStop ==
  [IdleStop EXCEPT !.target =
     IF crawlState.currentTabId # 0
       THEN ExtractIdsFromUrl(url[crawlState.currentTabId]).channel_id
       ELSE Null]

InFlight(r) == startReq[r].pc \in {"query", "sent", "replied"}

\* the guard of the startCrawl handler left out
NeverBusy(cs) == FALSE

\* if (crawlState.isCrawling) at the top of the startCrawl handler
StartBusy(cs) == cs.isCrawling

\* startCrawl handler, up to the await of chrome.tabs.query.  A request
\* takes the first slot that holds no handler in flight.
\* overlap records that another startCrawl handler was in flight meanwhile.
StartBegin(r) ==
  /\ startReq[r].pc \in {"idle", "done"}
  /\ \A q \in StartSlots : q < r => InFlight(q)
  /\ events < MaxEvents
  /\ events' = events + 1
  /\ IF StartBusy(crawlState)
       THEN startReq' = [startReq EXCEPT ![r] =
                           [pc |-> "done", tab |-> 0, resp |-> "busy", overlap |-> FALSE]]
       ELSE startReq' = [q \in StartSlots |->
                           IF q = r
                             THEN [pc |-> "query", tab |-> 0, resp |-> "none",
                                   overlap |-> \E o \in StartSlots \ {r} : InFlight(o)]
                             ELSE IF InFlight(q)
                               THEN [startReq[q] EXCEPT !.overlap = TRUE]
                               ELSE startReq[q]]
  /\ UNCHANGED << url, scr, outbox, crawlState, stopReq, db, now, call, popup,
                  saveResp >>

\* the target test of the startCrawl handler
TargetOk(tab) == tab # 0 /\ IncludesDiscord(url[tab])

\* startCrawl handler, from the result of chrome.tabs.query to the await of
\* chrome.tabs.sendMessage.  tab = 0: the query found no tab.
StartQueried(r) ==
  /\ startReq[r].pc = "query"
  /\ \E tab \in {0} \cup {t \in Tabs : url[t] # Closed} :
       IF ~TargetOk(tab)
         THEN /\ startReq' = [startReq EXCEPT ![r].pc = "done", ![r].resp = "notDiscord"]
              /\ UNCHANGED crawlState
         ELSE /\ crawlState' = [crawlState EXCEPT !.isCrawling = TRUE,
                                                  !.currentTabId = tab,
                                                  !.messageCount = 0]
              /\ startReq' = [startReq EXCEPT ![r].pc = "sent", ![r].tab = tab]
  /\ UNCHANGED << url, scr, outbox, stopReq, db, now, events, call, popup,
                  saveResp >>

\* the content script's listener gets { action: 'startCrawl' }
StartDelivered(r) ==
  /\ startReq[r].pc = "sent"
  /\ LET t == startReq[r].tab IN
       /\ HasContentScript(url[t])
       /\ LET res == StartCrawling(scr[t], url[t]) IN
            /\ scr' = [scr EXCEPT ![t] = res.s]
            /\ outbox' = [outbox EXCEPT ![t] = @ \o res.out]
  /\ startReq' = [startReq EXCEPT ![r].pc = "replied"]
  /\ UNCHANGED << url, crawlState, stopReq, db, now, events, call, popup,
                  saveResp >>

\* chrome.tabs.sendMessage rejected (no content script in the tab): the catch
StartSendFailed(r) ==
  /\ startReq[r].pc = "sent"
  /\ ~HasContentScript(url[startReq[r].tab])
  /\ crawlState' = ResetCrawlState(crawlState)
  /\ startReq' = [startReq EXCEPT ![r].pc = "done", ![r].resp = "sendFailed"]
  /\ UNCHANGED << url, scr, outbox, stopReq, db, now, events, call, popup,
                  saveResp >>

\* startCrawl handler after the await of chrome.tabs.sendMessage
StartReplied(r) ==
  /\ startReq[r].pc = "replied"
  /\ startReq' = [startReq EXCEPT ![r].pc = "done", ![r].resp = "ok"]
  /\ UNCHANGED << url, scr, outbox, crawlState, stopReq, db, now, events, call, popup,
                  saveResp >>

\* a clock that is set back: after MaxTime it reads 1 again
ReadClockSetBack == IF now >= MaxTime THEN 1 ELSE now + 1

\* new Date(): every reading is later than the one before, up to MaxTime
ReadClock == Min(now + 1, MaxTime)

\* stopCrawl handler from "Send stop message to content script" on
StopSendPhase(req) ==
  IF crawlState.currentTabId # 0
    THEN /\ stopReq' = [req EXCEPT !.pc = "sent", !.tab = crawlState.currentTabId]
         /\ UNCHANGED crawlState
    ELSE /\ stopReq' = [req EXCEPT !.pc = "done", !.resp = "ok"]
         /\ crawlState' = ResetCrawlState(crawlState)

\* stopCrawl handler, up to its first await
StopBegin ==
  /\ stopReq.pc \in {"idle", "done"}
  /\ IF ~crawlState.isCrawling
       THEN /\ stopReq' = [NewStop EXCEPT !.pc = "done", !.resp = "notRunning"]
            /\ UNCHANGED crawlState
       ELSE IF crawlState.currentChannel # Null
         THEN /\ stopReq' = [NewStop EXCEPT !.pc = "getChannel",
                                             !.chan = crawlState.currentChannel]
              /\ UNCHANGED crawlState
         ELSE StopSendPhase(NewStop)
  /\ UNCHANGED << url, scr, outbox, startReq, db, now, events, call, popup,
                  saveResp >>

\* stopCrawl handler after await dbManager.getChannel(...), up to the await
\* of dbManager.storeChannel(channel).  failed: getChannel rejected.  The
\* handler stamps the record it read and calls storeChannel in one
\* synchronous run; storeChannel opens its readwrite transaction in that
\* call, and transactions on one store run in the order they are opened, so
\* the write takes its place among the writes here.  putFailed: it rejects.
StopGotChannel ==
  /\ stopReq.pc = "getChannel"
  /\ \E failed \in {FALSE} \cup {x \in {TRUE} : events < MaxEvents} :
       IF ~failed /\ db.channels[stopReq.chan].exists
         THEN \E putFailed \in {FALSE} \cup {x \in {TRUE} : events < MaxEvents} :
                /\ events' = IF putFailed THEN events + 1 ELSE events
                /\ now' = ReadClock
                /\ db' = IF putFailed THEN [db EXCEPT !.failed = TRUE]
                         ELSE [db EXCEPT !.channels =
                                 StoreChannel(@, stopReq.chan,
                                   [server_id |-> db.channels[stopReq.chan].server_id,
                                    channel_name |-> db.channels[stopReq.chan].channel_name,
                                    last_crawled_at |-> ReadClock])]
                /\ stopReq' = [stopReq EXCEPT !.pc = "storeChannel",
                                              !.stamp = ReadClock,
                                              !.stamped = ~putFailed]
                /\ UNCHANGED crawlState
         ELSE /\ events' = IF failed THEN events + 1 ELSE events
              /\ StopSendPhase(stopReq)
              /\ UNCHANGED << now, db >>
  /\ UNCHANGED << url, scr, outbox, startReq, call, popup,
                  saveResp >>

\* stopCrawl handler after await dbManager.storeChannel(channel)
StopStoredChannel ==
  /\ stopReq.pc = "storeChannel"
  /\ StopSendPhase(stopReq)
  /\ UNCHANGED << url, scr, outbox, startReq, db, now, events, call, popup,
                  saveResp >>

\* the content script's listener gets { action: 'stopCrawl' }, or the send
\* is rejected and the handler logs the error
StopDelivered ==
  /\ stopReq.pc = "sent"
  /\ LET t == stopReq.tab IN
       IF HasContentScript(url[t])
         THEN LET res == StopCrawling(scr[t], "external") IN
                /\ scr' = [scr EXCEPT ![t] = res.s]
                /\ outbox' = [outbox EXCEPT ![t] = @ \o res.out]
         ELSE UNCHANGED << scr, outbox >>
  /\ stopReq' = [stopReq EXCEPT !.pc = "replied"]
  /\ UNCHANGED << url, crawlState, startReq, db, now, events, call, popup,
                  saveResp >>

\* stopCrawl handler after the await of chrome.tabs.sendMessage
StopReplied ==
  /\ stopReq.pc = "replied"
  /\ crawlState' = ResetCrawlState(crawlState)
  /\ stopReq' = [stopReq EXCEPT !.pc = "done", !.resp = "ok"]
  /\ UNCHANGED << url, scr, outbox, startReq, db, now, events, call, popup,
                  saveResp >>

\* a notification whenever the background is not crawling after the update
CrawlStatusChangedAlways(wasCrawling, isCrawling) == ~isCrawling

\* updateCrawlStatus handler: if (wasCrawling && !crawlState.isCrawling),
\* with crawlState.isCrawling as the handler has just set it
CrawlStatusChanged(wasCrawling, isCrawling) == wasCrawling /\ ~isCrawling

\* updateCrawlStatus handler (no await)
HandleUpdateCrawlStatus(t) ==
  /\ outbox[t] # << >>
  /\ Head(outbox[t]).action = "updateCrawlStatus"
  /\ LET request == Head(outbox[t]) IN
       /\ crawlState' =
         [isCrawling |-> IF request.isCrawling # "undef" THEN FALSE
                         ELSE crawlState.isCrawling,
          currentTabId |-> crawlState.currentTabId,
          currentChannel |-> IF request.channelId # Null THEN request.channelId
                             ELSE crawlState.currentChannel,
          currentChannelName |-> IF request.channelName # Null THEN request.channelName
                                 ELSE crawlState.currentChannelName,
          currentServerName |-> IF request.serverName # Null THEN request.serverName
                                ELSE crawlState.currentServerName,
          messageCount |-> IF request.messageCount # Undefined THEN request.messageCount
                           ELSE crawlState.messageCount]
       /\ popup' = IF CrawlStatusChanged(crawlState.isCrawling,
                                         crawlState'.isCrawling)
                     THEN popup + 1 ELSE popup
  /\ outbox' = [outbox EXCEPT ![t] = Tail(@)]
  /\ UNCHANGED << url, scr, startReq, stopReq, db, now, events, call, saveResp >>

\* no saveToIndexedDB request has been answered
NoSaveResponse == [answered |-> FALSE, success |-> FALSE, error |-> Null]

\* the count and the names taken from the request whether or not its writes
\* succeeded
SaveCrawlStateAlways(cs, request, failed) ==
  [cs EXCEPT !.messageCount = @ + Len(request.messages),
             !.currentChannel = request.channelId,
             !.currentChannelName = request.channelName,
             !.currentServerName = request.serverName]

\* saveToIndexedDB handler: crawlState.messageCount += request.messages.length
\* after storeMessages, and the "Update channel/server info from saved data"
\* block; a write that rejects takes the handler to its catch before them
SaveCrawlState(cs, request, failed) ==
  IF failed THEN cs
  ELSE [cs EXCEPT !.messageCount = @ + Len(request.messages),
                  !.currentChannel = request.channelId,
                  !.currentChannelName = request.channelName,
                  !.currentServerName = request.serverName]

Stages == << "server", "channel", "users", "messages" >>
StageNo(x) == CHOOSE i \in 1..5 : IF x = "none" THEN i = 5 ELSE Stages[i] = x

\* saveToIndexedDB handler.  fail names the write that rejects ("none": all
\* succeed); a write that is skipped cannot fail.  The response carries
\* error.message of the rejection, modelled by the name of the write.  The records come from
\* the content script with string keys, so a put fails with an error event.
\* The handler's writes are taken in one step.
HandleSave(t) ==
  /\ outbox[t] # << >>
  /\ Head(outbox[t]).action = "saveToIndexedDB"
  /\ LET request == Head(outbox[t])
         doServer == request.server_id # Null
         doChannel == request.channelId # Null
         doUsers == Len(request.users) > 0
         doMessages == Len(request.messages) > 0
         stamped == doChannel /\ request.updateLastCrawled
     IN \E fail \in {"none"} \cup
                   {x \in {"server", "channel", "users", "messages"} : events < MaxEvents} :
          LET f == StageNo(fail)
              stamp == IF stamped /\ f >= 2 THEN ReadClock ELSE now
          IN
          /\ events' = IF fail = "none" THEN events ELSE events + 1
          /\ fail = "server" => doServer
          /\ fail = "channel" => doChannel
          /\ fail = "users" => doUsers
          /\ fail = "messages" => doMessages
          /\ now' = stamp
          /\ db' =
               [servers |-> IF doServer /\ f > 1
                              THEN db.servers \cup {request.server_id} ELSE db.servers,
                channels |-> IF doChannel /\ f > 2
                               THEN StoreChannel(db.channels, request.channelId,
                                      IF request.updateLastCrawled
                                        THEN [server_id |-> request.server_id,
                                              channel_name |-> request.channelName,
                                              last_crawled_at |-> stamp]
                                        ELSE [server_id |-> request.server_id,
                                              channel_name |-> request.channelName])
                               ELSE db.channels,
                users |-> IF doUsers /\ f >= 3
                            THEN StoreUsers(db.users, request.users,
                                   IF f = 3 THEN 1 ELSE 0, "error").store
                            ELSE db.users,
                messages |-> IF doMessages /\ f >= 4
                               THEN StoreMessages(db.messages, request.messages,
                                      IF f = 4 THEN 1 ELSE 0, "error").store
                               ELSE db.messages,
                failed |-> db.failed \/ fail # "none"]
          /\ crawlState' = SaveCrawlState(crawlState, request, fail # "none")
          /\ saveResp' = [answered |-> TRUE, success |-> fail = "none",
                          error |-> IF fail = "none" THEN Null ELSE fail]
  /\ outbox' = [outbox EXCEPT ![t] = Tail(@)]
  /\ UNCHANGED << url, scr, startReq, stopReq, call, popup >>

\* ------------------------------------------------------------------ timers
\* No handler of the background is between two awaits and no message of a
\* content script is on its way.  A message round trip takes milliseconds,
\* the timers of the scroll loop 200 ms and more: a timer fires, and the page
\* reacts to a scroll, when the messaging is quiet.
Quiescent ==
  /\ \A r \in StartSlots : startReq[r].pc \in {"idle", "done"}
  /\ stopReq.pc \in {"idle", "done"}
  /\ \A t \in Tabs : outbox[t] = << >>

\* the 1000 ms timer of startAutoScrolling fires
FireInit(t) ==
  /\ Quiescent
  /\ BagIn(Timer("init", 0), scr[t].timers)
  /\ scr' = [scr EXCEPT ![t] = InitCallback(@)]
  /\ UNCHANGED << url, outbox, crawlState, startReq, stopReq, db, now, events, call, popup,
                  saveResp >>

\* a performScrollCycle timer fires
FireCycle(t) ==
  /\ Quiescent
  /\ \E tm \in BagToSet(scr[t].timers) :
       /\ tm.kind = "cycle"
       /\ LET res == PerformScrollCycle(scr[t], url[t], tm.n) IN
            /\ scr' = [scr EXCEPT ![t] = res.s]
            /\ outbox' = [outbox EXCEPT ![t] = @ \o res.out]
  /\ UNCHANGED << url, crawlState, startReq, stopReq, db, now, events, call, popup,
                  saveResp >>

\* a settle timer fires
FireSettle(t) ==
  /\ Quiescent
  /\ \E tm \in BagToSet(scr[t].timers) :
       /\ tm.kind = "settle"
       /\ LET res == SettleCallback(scr[t], url[t], tm.n, tm.c) IN
            /\ scr' = [scr EXCEPT ![t] = res.s]
            /\ outbox' = [outbox EXCEPT ![t] = @ \o res.out]
  /\ UNCHANGED << url, crawlState, startReq, stopReq, db, now, events, call, popup,
                  saveResp >>

\* ------------------------------------------------------------ environment
\* During a crawl the page loads older messages when the viewport is near
\* the top; the browser keeps the visible content in place.
LoadOlder(t) ==
  /\ Quiescent
  /\ scr[t].isCrawling
  /\ FindScrollContainer(url[t])
  /\ scr[t].rendered < Len(HistoryOf(url[t]))
  /\ scr[t].scrollTop <= ElemHeight
  /\ scr' = [scr EXCEPT ![t].rendered = @ + 1,
                         ![t].scrollTop = ClampScroll(scr[t].rendered + 1, @ + ElemHeight)]
  /\ UNCHANGED << url, outbox, crawlState, startReq, stopReq, db, now, events, call, popup,
                  saveResp >>

\* window beforeunload: scraper.stopCrawling(); the message may not get out
Unload(t, sent) ==
  IF HasContentScript(url[t]) /\ sent
    THEN outbox[t] \o StopCrawling(scr[t], "unload").out
    ELSE outbox[t]

\* an onRemoved listener that resets whichever tab is closed
OnRemovedAnyTab(tabId) ==
  IF crawlState.isCrawling THEN ResetCrawlState(crawlState) ELSE crawlState

\* chrome.tabs.onRemoved listener
OnRemoved(tabId) ==
  IF crawlState.isCrawling /\ crawlState.currentTabId = tabId
    THEN ResetCrawlState(crawlState) ELSE crawlState

\* chrome.tabs.onUpdated listener; urlChanged: changeInfo.url is set
OnUpdated(tabId, urlChanged, u) ==
  IF crawlState.isCrawling /\ crawlState.currentTabId = tabId
     /\ urlChanged /\ ~IncludesDiscord(u)
    THEN ResetCrawlState(crawlState) ELSE crawlState

\* the user closes tab t
CloseTab(t) ==
  /\ url[t] # Closed
  /\ events < MaxEvents
  /\ events' = events + 1
  /\ \E sent \in BOOLEAN : outbox' = [outbox EXCEPT ![t] = Unload(t, sent)]
  /\ url' = [url EXCEPT ![t] = Closed]
  /\ scr' = [scr EXCEPT ![t] = NewScraper(Closed)]
  /\ crawlState' = OnRemoved(t)
  /\ UNCHANGED << startReq, stopReq, db, now, call, popup,
                  saveResp >>

\* tab t loads page u (a reload when u is its page)
Navigate(t, u) ==
  /\ url[t] # Closed
  /\ events < MaxEvents
  /\ events' = events + 1
  /\ \E sent \in BOOLEAN : outbox' = [outbox EXCEPT ![t] = Unload(t, sent)]
  /\ url' = [url EXCEPT ![t] = u]
  /\ scr' = [scr EXCEPT ![t] = NewScraper(u)]
  /\ crawlState' = OnUpdated(t, u # url[t], u)
  /\ UNCHANGED << startReq, stopReq, db, now, call, popup,
                  saveResp >>

\* ------------------------------------------------------------ specification
Init ==
  /\ url = [t \in Tabs |-> IF t = 1 THEN "chA" ELSE "home"]
  /\ scr = [t \in Tabs |-> NewScraper(IF t = 1 THEN "chA" ELSE "home")]
  /\ outbox = [t \in Tabs |-> << >>]
  /\ crawlState = IdleCrawlState
  /\ startReq = [r \in StartSlots |-> IdleReq]
  /\ stopReq = IdleStop
  /\ db = [servers |-> {}, channels |-> [c \in ChannelIds |-> NoChannel],
           users |-> {}, messages |-> {}, failed |-> FALSE]
  /\ now = 0
  /\ events = 0
  /\ popup = 0
  /\ saveResp = NoSaveResponse
  /\ call = NoCall

Next ==
  \/ \E r \in StartSlots : StartBegin(r)
  \/ \E r \in StartSlots : StartQueried(r)
  \/ \E r \in StartSlots : StartDelivered(r)
  \/ \E r \in StartSlots : StartSendFailed(r)
  \/ \E r \in StartSlots : StartReplied(r)
  \/ StopBegin
  \/ StopGotChannel
  \/ StopStoredChannel
  \/ StopDelivered
  \/ StopReplied
  \/ \E t \in Tabs : HandleUpdateCrawlStatus(t)
  \/ \E t \in Tabs : HandleSave(t)
  \/ \E t \in Tabs : FireInit(t)
  \/ \E t \in Tabs : FireCycle(t)
  \/ \E t \in Tabs : FireSettle(t)
  \/ \E t \in Tabs : LoadOlder(t)
  \/ \E t \in Tabs : CloseTab(t)
  \/ \E t \in Tabs : \E u \in Urls : Navigate(t, u)

Spec == Init /\ [][Next]_vars

\* A step of an event loop: a timer that is due fires, a handler whose await
\* has resolved goes on, a message that was sent is handled.
Internal ==
  \/ \E t \in Tabs : FireInit(t) \/ FireCycle(t) \/ FireSettle(t)
  \/ \E t \in Tabs : HandleUpdateCrawlStatus(t) \/ HandleSave(t)
  \/ \E r \in StartSlots :
       StartQueried(r) \/ StartDelivered(r) \/ StartSendFailed(r) \/ StartReplied(r)
  \/ StopGotChannel \/ StopStoredChannel \/ StopDelivered \/ StopReplied

\* The event loops do not stop while they have something to run.
Fairness == WF_vars(Internal)

\* one open tab, on the long channel
InitLong ==
  /\ url = [t \in Tabs |-> IF t = 1 THEN LongChannel ELSE Closed]
  /\ scr = [t \in Tabs |-> NewScraper(url[t])]
  /\ outbox = [t \in Tabs |-> << >>]
  /\ crawlState = IdleCrawlState
  /\ startReq = [r \in StartSlots |-> IdleReq]
  /\ stopReq = IdleStop
  /\ db = [servers |-> {}, channels |-> [c \in ChannelIds |-> NoChannel],
           users |-> {}, messages |-> {}, failed |-> FALSE]
  /\ now = 0
  /\ events = 0
  /\ popup = 0
  /\ saveResp = NoSaveResponse
  /\ call = NoCall

PushSpec == InitLong /\ [][Next]_vars

\* one open tab, on channel A
InitOneTab ==
  /\ url = [t \in Tabs |-> IF t = 1 THEN "chA" ELSE Closed]
  /\ scr = [t \in Tabs |-> NewScraper(url[t])]
  /\ outbox = [t \in Tabs |-> << >>]
  /\ crawlState = IdleCrawlState
  /\ startReq = [r \in StartSlots |-> IdleReq]
  /\ stopReq = IdleStop
  /\ db = [servers |-> {}, channels |-> [c \in ChannelIds |-> NoChannel],
           users |-> {}, messages |-> {}, failed |-> FALSE]
  /\ now = 0
  /\ events = 0
  /\ popup = 0
  /\ saveResp = NoSaveResponse
  /\ call = NoCall

LiveSpec == InitOneTab /\ [][Next]_vars /\ Fairness

\* ------------------------------------------------------------------ claims
\* C1: at any time at most one content script's ScraperService has
\* isCrawling = true.
C1_AtMostOneCrawling == Cardinality({t \in Tabs : scr[t].isCrawling}) <= 1

\* C2: a startCrawl request handled while crawlState.isCrawling is true is
\* answered success=false ('Crawler is already running'), changes no field of
\* crawlState and sends no message to a tab.
C2_BusyRejected ==
  [][\A r \in StartSlots :
       (StartBegin(r) /\ crawlState.isCrawling) =>
         /\ startReq'[r].pc = "done"
         /\ startReq'[r].resp = "busy"
         /\ crawlState' = crawlState
         /\ \A q \in StartSlots : startReq'[q].pc = "sent" => startReq[q].pc = "sent"
         /\ stopReq' = stopReq]_vars

C2_Witness ==
  \E r \in StartSlots : startReq[r].resp = "busy" /\ crawlState.isCrawling

\* C3: of two startCrawl requests in flight at once, at most one is answered
\* success=true.
C3_OneSuccess ==
  ~ \E r, q \in StartSlots :
      /\ r # q
      /\ startReq[r].overlap /\ startReq[q].overlap
      /\ startReq[r].resp = "ok" /\ startReq[q].resp = "ok"

\* C4: a startCrawl request whose target tab's URL carries no
\* /channels/{server_id}/{channel_id} gets no further than the rejection: it
\* changes no crawlState field and sends no message to the tab.
C4_NoChannelRejected ==
  [][\A r \in StartSlots :
       (StartQueried(r) /\ startReq'[r].pc = "sent") =>
         ExtractIdsFromUrl(url[startReq'[r].tab]).channel_id # Null]_vars

DomIds(t) ==
  {ExtractMessageId(Dom(url[t], scr[t].rendered)[i]) :
     i \in 1..Len(Dom(url[t], scr[t].rendered))}
StoredIds == {m.message_id : m \in db.messages}

\* C5: every message rendered during a crawl is persisted: when the scroll
\* loop has ended the crawl, every message was delivered and no write failed,
\* the store holds every message the page shows.
C5_RenderedPersisted ==
  \A t \in Tabs :
    (~scr[t].isCrawling /\ scr[t].stoppedBy = "self" /\ Quiescent /\ ~db.failed)
      => DomIds(t) \subseteq StoredIds

NoDuplicates(sq) == \A i, j \in 1..Len(sq) : i # j => sq[i] # sq[j]

\* C6: within a session parseMessage returns null for an element whose
\* message id was already processed, and no message id is forwarded twice.
C6_SessionDedup ==
  \A t \in Tabs :
    /\ NoDuplicates(scr[t].forwarded)
    /\ \A i \in 1..Len(History) :
         ExtractMessageId(History[i]) \in scr[t].processedMessageIds
           => ParseMessage(scr[t].processedMessageIds, History[i], NoUser).isNull

C6_Witness ==
  \E t \in Tabs :
    /\ scr[t].isCrawling
    /\ scr[t].rendered = PageRendered(url[t])
    /\ Len(scr[t].forwarded) >= 1
    /\ Len(scr[t].forwarded) < scr[t].rendered

SeqRange(sq) == {sq[i] : i \in 1..Len(sq)}

\* C7: every start of a session forwards every message the page shows, those
\* processed in an earlier session included, as one save request.
C7_StartResetsDedup ==
  [][\A t \in Tabs :
       (~scr[t].isCrawling /\ scr'[t].isCrawling) =>
         /\ SeqRange(scr'[t].forwarded) = DomIds(t)
         /\ scr'[t].processedMessageIds = DomIds(t)
         /\ DomIds(t) # {} =>
              LET last == outbox'[t][Len(outbox'[t])] IN
                /\ last.action = "saveToIndexedDB"
                /\ {m.message_id : m \in SeqRange(last.messages)} = DomIds(t)]_vars

C7_Witness ==
  \E t \in Tabs :
    /\ scr[t].isCrawling
    /\ \E i \in 1..Len(scr[t].forwarded) : scr[t].forwarded[i] \in scr[t].earlier

\* C8: in every session the first scroll action is the scroll-to-bottom; no
\* upward scroll step precedes it.
C8_FirstScrollIsBottom ==
  \A t \in Tabs : scr[t].firstScroll \in {"none", "bottom"}

\* the scroll loop of tab t ends the crawl in this step
SelfStop(t) ==
  scr[t].isCrawling /\ ~scr'[t].isCrawling /\ scr'[t].stoppedBy = "self"

\* C9 as claimed: the scroll loop ends the crawl only with the no-growth
\* counter at 3 or more and the viewport at most 10 px from the top.
C9_SelfStopOnlyAtTop ==
  [][\A t \in Tabs :
       SelfStop(t) =>
         /\ scr'[t].noNewMessagesCount >= NO_NEW_MESSAGES_THRESHOLD
         /\ FindScrollContainer(url[t])
         /\ scr'[t].scrollTop <= TopTolerance]_vars

\* C9 as amended: the scroll loop ends the crawl only with the no-growth
\* counter at 3 or more and either the viewport at most 10 px from the top
\* or no scroll container on the page.
C9_SelfStopGuard ==
  [][\A t \in Tabs :
       SelfStop(t) =>
         /\ scr'[t].noNewMessagesCount >= NO_NEW_MESSAGES_THRESHOLD
         /\ \/ ~FindScrollContainer(url[t])
            \/ scr'[t].scrollTop <= TopTolerance]_vars

C9_Witness ==
  \E t \in Tabs :
    /\ ~scr[t].isCrawling /\ scr[t].stoppedBy = "self"
    /\ FindScrollContainer(url[t])
    /\ scr[t].noNewMessagesCount >= NO_NEW_MESSAGES_THRESHOLD
    /\ scr[t].scrollTop <= TopTolerance

\* the viewport of tab t is at the top and the page has nothing older to load
StableAtTop(t) ==
  /\ FindScrollContainer(url[t])
  /\ scr[t].scrollTop = 0
  /\ scr[t].rendered = Len(History)

\* the scraper of tab t is not crawling and has no timer pending
Stopped(t) == ~scr[t].isCrawling /\ scr[t].timers = EmptyBag

\* C10: a crawl whose scroll position has stabilised at 0, where no scroll
\* step adds messages, eventually reaches Stopped: isCrawling is false and no
\* scroll timer is pending.
C10_Terminates ==
  (\E t \in Tabs : scr[t].isCrawling /\ StableAtTop(t)) ~> (\A t \in Tabs : Stopped(t))

C10_Witness ==
  \E t \in Tabs :
    Stopped(t) /\ scr[t].stoppedBy = "self" /\ StableAtTop(t)

\* a timer callback of the scroll loop of tab t runs in this step
TimerStep(t) == FireInit(t) \/ FireCycle(t) \/ FireSettle(t)

\* C11: once the crawl is stopped the scroll loop scrolls no more: a timer
\* callback that runs while isCrawling is false leaves the scroll position
\* alone, and a performScrollCycle or a settle callback that runs then
\* schedules no timer.
C11_NoScrollAfterStop ==
  [][\A t \in Tabs :
       (~scr[t].isCrawling /\ TimerStep(t)) =>
         /\ scr'[t].scrollTop = scr[t].scrollTop
         /\ scr'[t].firstScroll = scr[t].firstScroll
         /\ ~scr'[t].isCrawling
         /\ (FireCycle(t) \/ FireSettle(t)) =>
              \A tm \in BagToSet(scr'[t].timers) :
                CopiesIn(tm, scr'[t].timers) <= CopiesIn(tm, scr[t].timers)]_vars

\* stopped from outside with a scroll step scheduled and a settle delay
\* in flight
C11_Witness ==
  \E t \in Tabs :
    /\ ~scr[t].isCrawling /\ scr[t].stoppedBy = "external"
    /\ \E tm \in BagToSet(scr[t].timers) : tm.kind = "cycle"
    /\ \E tm \in BagToSet(scr[t].timers) : tm.kind = "settle"

\* C12 as claimed: after the ok response to a stop made while the crawling
\* tab shows a channel, the stored record of that channel carries the time
\* the stop handler read.
C12_StopStamps ==
  (stopReq.pc = "done" /\ stopReq.resp = "ok" /\ stopReq.target # Null) =>
    /\ stopReq.stamp # 0
    /\ db.channels[stopReq.target].exists
    /\ db.channels[stopReq.target].last_crawled_at >= stopReq.stamp

\* C12 as amended: a stop handler that knows the session's channel
\* (crawlState.currentChannel), finds its record in the store and whose write
\* succeeds, has stamped the record with the time it read before it sends
\* stopCrawl to the tab; the record carries that time or a later one.
C12_StopStampsKnownChannel ==
  /\ stopReq.stamped =>
       /\ stopReq.pc \in {"storeChannel", "sent", "replied", "done"}
       /\ db.channels[stopReq.chan].exists
       /\ db.channels[stopReq.chan].last_crawled_at >= stopReq.stamp
       /\ stopReq.stamp > 0
  /\ (stopReq.pc \in {"sent", "replied"} /\ stopReq.stamp # 0 /\ ~db.failed)
       => stopReq.stamped

C12_Witness ==
  /\ stopReq.pc = "done" /\ stopReq.resp = "ok" /\ stopReq.stamped
  /\ stopReq.target = stopReq.chan
  /\ db.channels[stopReq.chan].last_crawled_at = stopReq.stamp
  /\ \E t \in Tabs : scr[t].stoppedBy = "external"

\* ------------------------------------------------- the store, call by call
\* The IndexedDBManager driven directly, one call at a time, with records
\* and batches of every shape its callers can pass.  call keeps the last
\* call: its arguments and what its promise settled with.

\* incoming channel records of channel cA: every field is carried or not
ChannelInputs ==
  { [f \in D |-> full[f]] :
      full \in [server_id : {"s1"}, channel_name : {"name-cA", Null},
                last_crawled_at : 0..MaxTime],
      D \in SUBSET ChannelFields }

UserBatches == { << 1 >>, << 1, 2 >>, << 2, NoUser, 1 >>, << 1, 2, 3 >> }

Message(id, user_id) == [message_id |-> id, channel_id |-> "cA", user_id |-> user_id]
MessageBatches ==
  { << Message(1, 1) >>, << Message(1, 1), Message(2, NoUser) >>,
    << Message(1, 2), Message(0, 1), Message(2, 2) >> }

\* the records of a batch whose put can fail: those that are put
PutIndexes(valid) == {0} \cup valid

CallStoreChannel ==
  /\ \E id \in {"cA"}, channel \in ChannelInputs :
       /\ db' = [db EXCEPT !.channels = StoreChannel(@, id, channel)]
       /\ call' = [op |-> "storeChannel", id |-> id, channel |-> channel]
  /\ UNCHANGED << url, scr, outbox, crawlState, startReq, stopReq, now, events, popup,
                  saveResp >>

CallStoreUsers ==
  /\ \E batch \in UserBatches, mode \in FailModes :
       \E k \in PutIndexes({i \in 1..Len(batch) : batch[i] # NoUser}) :
         LET res == StoreUsers(db.users, batch, k, mode) IN
         /\ db' = [db EXCEPT !.users = res.store, !.failed = @ \/ res.rejected]
         /\ call' = [op |-> "storeUsers", batch |-> batch, k |-> k, mode |-> mode,
                     attempted |-> res.attempted, rejected |-> res.rejected,
                     errors |-> res.errors]
  /\ UNCHANGED << url, scr, outbox, crawlState, startReq, stopReq, now, events, popup,
                  saveResp >>

CallStoreMessages ==
  /\ \E batch \in MessageBatches, mode \in FailModes :
       \E k \in PutIndexes({i \in 1..Len(batch) : batch[i].message_id # 0}) :
         LET res == StoreMessages(db.messages, batch, k, mode) IN
         /\ db' = [db EXCEPT !.messages = res.store, !.failed = @ \/ res.rejected]
         /\ call' = [op |-> "storeMessages", batch |-> batch, k |-> k, mode |-> mode,
                     attempted |-> res.attempted, rejected |-> res.rejected,
                     errors |-> res.errors]
  /\ UNCHANGED << url, scr, outbox, crawlState, startReq, stopReq, now, events, popup,
                  saveResp >>

StoreNext == CallStoreChannel \/ CallStoreUsers \/ CallStoreMessages

StoreSpec == Init /\ [][StoreNext]_vars

\* ---------------------------------------------------------------- export
\* exportDatabaseFromIndexedDB(indexedDBData).  A snapshot is a record that
\* carries some of the fields users, channels and messages, each a list; the
\* record without fields also stands for null.  A key that is missing or
\* empty reads Null (NoUser, 0 for the numeric ids).
ListOf(data, f) == IF f \in DOMAIN data THEN data[f] ELSE << >>

\* the users loop: the rows of the users table, a row a user_id.  An insert
\* whose user_id is in the table already violates the primary key, throws
\* and is skipped.
RECURSIVE ExportUsers(_, _, _)
ExportUsers(users, i, rows) ==
  IF i > Len(users) THEN rows
  ELSE ExportUsers(users, i + 1,
         IF users[i].user_id = NoUser \/ InSeq(users[i].user_id, rows)
           THEN rows ELSE Append(rows, users[i].user_id))

ChannelUrl(channel) == << channel.server_id, channel.channel_id >>

\* the channels loop without its check of server_id and channel_id
RECURSIVE ExportChannelsAny(_, _, _)
ExportChannelsAny(channels, i, acc) ==
  IF i > Len(channels) THEN acc
  ELSE
    LET channel == channels[i]
        rowUrl == ChannelUrl(channel)
        known == \E r \in 1..Len(acc.rows) : acc.rows[r].url = rowUrl
        name == IF channel.channel_name # Null THEN channel.channel_name ELSE "Unknown"
    IN ExportChannelsAny(channels, i + 1,
         IF known
           THEN acc
           ELSE [rows |-> Append(acc.rows, [name |-> name, url |-> rowUrl]),
                 map |-> {p \in acc.map : p[1] # channel.channel_id}
                           \cup {<< channel.channel_id, Len(acc.rows) + 1 >>}])

\* the channels loop: acc.rows are the rows of the channels table (the id of
\* a row is its place), acc.map is channelIdMap as a set of pairs.  An
\* insert whose url is in the table already violates UNIQUE(url), throws and
\* is skipped, mapping included.
RECURSIVE ExportChannels(_, _, _)
ExportChannels(channels, i, acc) ==
  IF i > Len(channels) THEN acc
  ELSE
    LET channel == channels[i]
        rowUrl == ChannelUrl(channel)
        known == \E r \in 1..Len(acc.rows) : acc.rows[r].url = rowUrl
        name == IF channel.channel_name # Null THEN channel.channel_name ELSE "Unknown"
    IN ExportChannels(channels, i + 1,
         IF channel.server_id = Null \/ channel.channel_id = Null \/ known
           THEN acc
           ELSE [rows |-> Append(acc.rows, [name |-> name, url |-> rowUrl]),
                 map |-> {p \in acc.map : p[1] # channel.channel_id}
                           \cup {<< channel.channel_id, Len(acc.rows) + 1 >>}])

\* the messages loop without its try and catch: the first insert that
\* throws ends the loop
RECURSIVE ExportMessagesUncaught(_, _, _, _, _, _)
ExportMessagesUncaught(messages, i, map, users, fk, rows) ==
  IF i > Len(messages) THEN rows
  ELSE
    LET msg == messages[i]
        mapped == {p \in map : p[1] = msg.channel_id}
    IN IF msg.message_id = 0 \/ msg.channel_id = Null \/ mapped = {}
         THEN ExportMessagesUncaught(messages, i + 1, map, users, fk, rows)
         ELSE LET channelId == (CHOOSE p \in mapped : TRUE)[2]
                  row == [channel_id |-> channelId, message_id |-> msg.message_id,
                          user_id |-> msg.user_id]
                  duplicate == \E r \in 1..Len(rows) :
                                 /\ rows[r].channel_id = channelId
                                 /\ rows[r].message_id = msg.message_id
                  dangling == msg.user_id # NoUser /\ ~InSeq(msg.user_id, users)
              IN IF duplicate \/ (fk /\ dangling)
                   THEN rows
                   ELSE ExportMessagesUncaught(messages, i + 1, map, users, fk,
                                               Append(rows, row))

\* the messages loop on a table without UNIQUE(channel_id, message_id)
RECURSIVE ExportMessagesRepeated(_, _, _, _, _, _)
ExportMessagesRepeated(messages, i, map, users, fk, rows) ==
  IF i > Len(messages) THEN rows
  ELSE
    LET msg == messages[i]
        mapped == {p \in map : p[1] = msg.channel_id}
    IN ExportMessagesRepeated(messages, i + 1, map, users, fk,
         IF msg.message_id = 0 \/ msg.channel_id = Null \/ mapped = {}
           THEN rows
           ELSE LET channelId == (CHOOSE p \in mapped : TRUE)[2]
                    row == [channel_id |-> channelId, message_id |-> msg.message_id,
                            user_id |-> msg.user_id]
                    dangling == msg.user_id # NoUser /\ ~InSeq(msg.user_id, users)
                IN IF fk /\ dangling
                     THEN rows ELSE Append(rows, row))

\* the messages loop without the check of the channel mapping: a message
\* whose channel was not exported gets a row with channel_id 0
RECURSIVE ExportMessagesOrphans(_, _, _, _, _, _)
ExportMessagesOrphans(messages, i, map, users, fk, rows) ==
  IF i > Len(messages) THEN rows
  ELSE
    LET msg == messages[i]
        mapped == {p \in map : p[1] = msg.channel_id}
    IN ExportMessagesOrphans(messages, i + 1, map, users, fk,
         IF msg.message_id = 0 \/ msg.channel_id = Null
           THEN rows
           ELSE LET channelId == IF mapped = {} THEN 0
                                 ELSE (CHOOSE p \in mapped : TRUE)[2]
                    row == [channel_id |-> channelId, message_id |-> msg.message_id,
                            user_id |-> msg.user_id]
                    duplicate == \E r \in 1..Len(rows) :
                                   /\ rows[r].channel_id = channelId
                                   /\ rows[r].message_id = msg.message_id
                    dangling == msg.user_id # NoUser /\ ~InSeq(msg.user_id, users)
                IN IF duplicate \/ (fk /\ dangling)
                     THEN rows ELSE Append(rows, row))

\* the messages loop: the rows of the messages table.  An insert whose
\* (channel_id, message_id) is in the table already violates the UNIQUE
\* constraint, throws and is skipped.  The function never sets PRAGMA
\* foreign_keys, so whether the FOREIGN KEY clauses are enforced is left to
\* the SQLite build (off unless built with SQLITE_DEFAULT_FOREIGN_KEYS): fk
\* says that they are, and then an insert whose user_id is not null and not
\* in the users table throws and is skipped as well.
RECURSIVE ExportMessages(_, _, _, _, _, _)
ExportMessages(messages, i, map, users, fk, rows) ==
  IF i > Len(messages) THEN rows
  ELSE
    LET msg == messages[i]
        mapped == {p \in map : p[1] = msg.channel_id}
    IN ExportMessages(messages, i + 1, map, users, fk,
         IF msg.message_id = 0 \/ msg.channel_id = Null \/ mapped = {}
           THEN rows
           ELSE LET channelId == (CHOOSE p \in mapped : TRUE)[2]
                    row == [channel_id |-> channelId, message_id |-> msg.message_id,
                            user_id |-> msg.user_id]
                    duplicate == \E r \in 1..Len(rows) :
                                   /\ rows[r].channel_id = channelId
                                   /\ rows[r].message_id = msg.message_id
                    dangling == msg.user_id # NoUser /\ ~InSeq(msg.user_id, users)
                IN IF duplicate \/ (fk /\ dangling)
                     THEN rows ELSE Append(rows, row))

NoTables == [users |-> << >>, channels |-> << >>, messages |-> << >>]

\* The successful inserts in the order they are made: the users loop runs to
\* its end before the channels loop starts, and that one before the
\* messages loop.
InsertLog(users, channels, messages) ==
  [i \in 1..Len(users) |-> "users"]
    \o [i \in 1..Len(channels) |-> "channels"]
    \o [i \in 1..Len(messages) |-> "messages"]

\* the export without its check of exportedCount
ExportTablesAnyCount(data, fk) ==
  LET users == ExportUsers(ListOf(data, "users"), 1, << >>)
      chans == ExportChannels(ListOf(data, "channels"), 1, [rows |-> << >>, map |-> {}])
      msgs == ExportMessages(ListOf(data, "messages"), 1, chans.map, users, fk, << >>)
  IN [error |-> "none", created |-> TRUE,
      tables |-> [users |-> users, channels |-> chans.rows, messages |-> msgs],
      log |-> InsertLog(users, chans.rows, msgs), artifact |-> TRUE]

\* from "Create a fresh SQLite database for export" on
ExportTables(data, fk) ==
  LET users == ExportUsers(ListOf(data, "users"), 1, << >>)
      chans == ExportChannels(ListOf(data, "channels"), 1, [rows |-> << >>, map |-> {}])
      msgs == ExportMessages(ListOf(data, "messages"), 1, chans.map, users, fk, << >>)
      tables == [users |-> users, channels |-> chans.rows, messages |-> msgs]
      log == InsertLog(users, chans.rows, msgs)
  IN IF Len(msgs) = 0
       THEN [error |-> "No valid messages could be exported", created |-> TRUE,
             tables |-> tables, log |-> log, artifact |-> FALSE]
       ELSE [error |-> "none", created |-> TRUE, tables |-> tables, log |-> log,
             artifact |-> TRUE]

\* the export without its check of the input
ExportUnchecked(data, fk) == ExportTables(data, fk)

ExportDatabaseFromIndexedDB(data, fk) ==
  IF "messages" \notin DOMAIN data \/ Len(data.messages) = 0
    THEN [error |-> "No data to export", created |-> FALSE,
          tables |-> NoTables, log |-> << >>, artifact |-> FALSE]
    ELSE ExportTables(data, fk)

\* the snapshots an export is called on
SnapshotFields == {"users", "channels", "messages"}
User(id) == [user_id |-> id, username |-> "user"]
Channel(server_id, channel_id, name) ==
  [server_id |-> server_id, channel_id |-> channel_id, channel_name |-> name]
MessageOf(id, channel_id, user_id) ==
  [message_id |-> id, channel_id |-> channel_id, user_id |-> user_id]

SnapUsers ==
  { << >>, << User(1) >>, << User(1), User(2) >>, << User(1), User(1) >>,
    << User(NoUser), User(2) >> }
SnapChannels ==
  { << >>, << Channel("s1", "cA", "name-cA") >>,
    << Channel("s1", "cA", Null), Channel("s1", "cA", "name-cA") >>,
    << Channel(Null, "cA", "name-cA") >>,
    << Channel("s1", "cA", "name-cA"), Channel("s1", "cB", "name-cB") >>,
    << Channel("s1", "cA", "name-cA"), Channel("s2", "cA", "name-cA") >> }
SnapMessages ==
  { << >>, << MessageOf(1, "cA", 1) >>,
    << MessageOf(1, "cA", 1), MessageOf(2, "cA", 2), MessageOf(3, "cB", 1) >>,
    << MessageOf(1, "cA", 1), MessageOf(1, "cA", 2) >>,
    << MessageOf(0, "cA", 1) >>,
    << MessageOf(1, Null, NoUser), MessageOf(2, "cB", 3) >>,
    << MessageOf(1, "cA", 3), MessageOf(1, "cA", 2), MessageOf(2, "cA", 1) >> }
Snapshots ==
  { [f \in D |-> full[f]] :
      full \in [users : SnapUsers, channels : SnapChannels, messages : SnapMessages],
      D \in SUBSET SnapshotFields }

\* The keyed store the export button is clicked on: empty, a crawl of cA
\* with its users, messages of cB whose channel record was never stored,
\* and a crawl of two channels with a message that names no stored user.
EmptyStores ==
  [servers |-> {}, channels |-> [c \in ChannelIds |-> NoChannel],
   users |-> {}, messages |-> {}, failed |-> FALSE]
StoredChannel(server_id, name) ==
  [exists |-> TRUE, server_id |-> server_id, channel_name |-> name, last_crawled_at |-> 1]
ExportStores ==
  { EmptyStores,
    [EmptyStores EXCEPT !.servers = {"s1"},
                        !.channels = [@ EXCEPT !["cA"] = StoredChannel("s1", "name-cA")],
                        !.users = {1, 2},
                        !.messages = {MessageOf(1, "cA", 1), MessageOf(2, "cA", 2)}],
    [EmptyStores EXCEPT !.users = {1},
                        !.messages = {MessageOf(1, "cB", 1)}],
    [EmptyStores EXCEPT !.servers = {"s1"},
                        !.channels = [@ EXCEPT !["cA"] = StoredChannel("s1", Null),
                                               !["cB"] = StoredChannel("s1", "name-cB")],
                        !.users = {2},
                        !.messages = {MessageOf(1, "cA", 2), MessageOf(2, "cB", 3),
                                      MessageOf(3, "cB", NoUser)}],
    [EmptyStores EXCEPT !.servers = {"s1"},
                        !.channels = [@ EXCEPT !["cA"] = StoredChannel("s1", "name-cA")],
                        !.users = {1}] }

ExportInit ==
  /\ url = [t \in Tabs |-> IF t = 1 THEN "chA" ELSE "home"]
  /\ scr = [t \in Tabs |-> NewScraper(url[t])]
  /\ outbox = [t \in Tabs |-> << >>]
  /\ crawlState = IdleCrawlState
  /\ startReq = [r \in StartSlots |-> IdleReq]
  /\ stopReq = IdleStop
  /\ now = 0
  /\ events = 0
  /\ popup = 0
  /\ saveResp = NoSaveResponse
  /\ \/ /\ db = EmptyStores
        /\ \E data \in Snapshots : call = [op |-> "snapshot", data |-> data]
     \/ /\ db \in ExportStores
        /\ call = [op |-> "click"]

\* exportDatabaseFromIndexedDB called on a snapshot
Export ==
  /\ call.op = "snapshot"
  /\ \E fk \in BOOLEAN :
       call' = [op |-> "export", data |-> call.data, fk |-> fk,
                result |-> ExportDatabaseFromIndexedDB(call.data, fk)]
  /\ UNCHANGED << url, scr, outbox, crawlState, startReq, stopReq, db, now, events, popup,
                  saveResp >>

\* the keys of a store in ascending order
RECURSIVE KeysAscending(_)
KeysAscending(keys) ==
  IF keys = {} THEN << >>
  ELSE LET least == CHOOSE k \in keys : \A other \in keys : k <= other
       IN << least >> \o KeysAscending(keys \ {least})

Reverse(s) == [i \in 1..Len(s) |-> s[Len(s) + 1 - i]]

\* getAllServers(), getAllChannels(), getAllUsers(): getAll() on a readonly
\* transaction, the records in the order of their keys
ChannelKeys == << "cA", "cB", "cL" >>
GetAllServers(store) == IF "s1" \in store.servers THEN << "s1" >> ELSE << >>
GetAllChannels(store) ==
  LET stored == SelectSeq(ChannelKeys, LAMBDA c : store.channels[c].exists)
  IN [i \in 1..Len(stored) |->
        Channel(store.channels[stored[i]].server_id, stored[i],
                store.channels[stored[i]].channel_name)]
GetAllUsers(store) ==
  LET keys == KeysAscending(store.users)
  IN [i \in 1..Len(keys) |-> User(keys[i])]

\* getAllMessages(): a cursor over the timestamp index, newest first, on a
\* readonly transaction; the messages of a channel are newer the greater
\* their message_id
GetAllMessages(store) ==
  LET keys == Reverse(KeysAscending({m.message_id : m \in store.messages}))
  IN [i \in 1..Len(keys) |-> CHOOSE m \in store.messages : m.message_id = keys[i]]

NoData == [servers |-> << >>, channels |-> << >>, users |-> << >>, messages |-> << >>]

\* getIndexedDBData that empties the messages store once it has read it
GetIndexedDBDataDraining ==
  /\ call.op = "click"
  /\ \E success \in BOOLEAN :
       call' = [op |-> "data",
                data |-> IF success
                           THEN [servers |-> GetAllServers(db), channels |-> GetAllChannels(db),
                                 users |-> GetAllUsers(db), messages |-> GetAllMessages(db)]
                           ELSE NoData]
  /\ db' = [db EXCEPT !.messages = {}]
  /\ UNCHANGED << url, scr, outbox, crawlState, startReq, stopReq, now, events, popup,
                  saveResp >>

\* The click on the export button up to its first await: getIndexedDBData()
\* asks the background for the four stores, and gets empty lists when the
\* request fails.
GetIndexedDBData ==
  /\ call.op = "click"
  /\ \E success \in BOOLEAN :
       call' = [op |-> "data",
                data |-> IF success
                           THEN [servers |-> GetAllServers(db), channels |-> GetAllChannels(db),
                                 users |-> GetAllUsers(db), messages |-> GetAllMessages(db)]
                           ELSE NoData]
  /\ UNCHANGED << url, scr, outbox, crawlState, startReq, stopReq, db, now, events, popup,
                  saveResp >>

\* The rest of the click handler: a warning when there is no message, else
\* the export of what was read and the download of the artifact.
ExportClick ==
  /\ call.op = "data"
  /\ IF Len(call.data.messages) = 0
       THEN call' = [op |-> "warned", data |-> call.data]
       ELSE \E fk \in BOOLEAN :
              call' = [op |-> "export", data |-> call.data, fk |-> fk,
                       result |-> ExportDatabaseFromIndexedDB(call.data, fk)]
  /\ UNCHANGED << url, scr, outbox, crawlState, startReq, stopReq, db, now, events, popup,
                  saveResp >>

ExportNext == Export \/ GetIndexedDBData \/ ExportClick

ExportSpec == ExportInit /\ [][ExportNext]_vars

\* ------------------------------------------------------- extraction passes
\* The lists of <li> elements a pass of extractExistingMessages() runs over:
\* up to MaxDom elements, the i-th with message number i, each with a
\* header and a resolved user id, with a header and no resolved user id, or
\* without header.
MaxDom == 3
ElementKinds ==
  { [hdr |-> TRUE, uid |-> 1, throws |-> FALSE], [hdr |-> TRUE, uid |-> 2, throws |-> FALSE],
    [hdr |-> TRUE, uid |-> NoUser, throws |-> FALSE],
    [hdr |-> FALSE, uid |-> NoUser, throws |-> FALSE],
    [hdr |-> TRUE, uid |-> 1, throws |-> TRUE] }
DomLists ==
  UNION { { [i \in 1..n |-> [chan |-> 7, msg |-> i, hdr |-> kinds[i].hdr,
                             uid |-> kinds[i].uid, throws |-> kinds[i].throws]] : kinds \in [1..n -> ElementKinds] }
          : n \in 0..MaxDom }

ExtractInit ==
  /\ url = [t \in Tabs |-> IF t = 1 THEN "chA" ELSE "home"]
  /\ scr = [t \in Tabs |-> NewScraper(url[t])]
  /\ outbox = [t \in Tabs |-> << >>]
  /\ crawlState = IdleCrawlState
  /\ startReq = [r \in StartSlots |-> IdleReq]
  /\ stopReq = IdleStop
  /\ db = [servers |-> {}, channels |-> [c \in ChannelIds |-> NoChannel],
           users |-> {}, messages |-> {}, failed |-> FALSE]
  /\ now = 0
  /\ events = 0
  /\ popup = 0
  /\ saveResp = NoSaveResponse
  /\ \E dom \in DomLists, processed \in SUBSET (1..MaxDom) :
       call = [op |-> "extract", dom |-> dom, i |-> 1,
               acc |-> [threw |-> FALSE, messages |-> << >>, users |-> << >>,
                        processed |-> processed,
                        last |-> NoUser, pushes |-> << >>]]

\* one iteration of the forEach of extractExistingMessages()
ExtractElement ==
  /\ call.op = "extract"
  /\ call.i <= Len(call.dom)
  /\ call' = [call EXCEPT !.i = @ + 1,
                          !.acc = ExtractStep(@, call.dom[call.i], "cA")]
  /\ UNCHANGED << url, scr, outbox, crawlState, startReq, stopReq, db, now, events, popup,
                  saveResp >>

\* extractExistingMessages() returns
ExtractReturn ==
  /\ call.op = "extract"
  /\ call.i > Len(call.dom)
  /\ call' = [op |-> "extracted", dom |-> call.dom, i |-> call.i, acc |-> call.acc,
              result |-> [messages |-> call.acc.messages, users |-> call.acc.users]]
  /\ UNCHANGED << url, scr, outbox, crawlState, startReq, stopReq, db, now, events, popup,
                  saveResp >>

ExtractNext == ExtractElement \/ ExtractReturn

ExtractSpec == ExtractInit /\ [][ExtractNext]_vars

\* ---------------------------------------------------------------- reactions
\* A text is a sequence of characters.  Digits, IsSpace and ParseInt follow
\* parseInt(text): white space is skipped, a sign is read, then the longest
\* run of decimal digits; without a digit the result is NaN.
Digits == << "0", "1", "2", "3", "4", "5", "6", "7", "8", "9" >>
IsDigit(c) == \E d \in 1..Len(Digits) : Digits[d] = c
DigitValue(c) == (CHOOSE d \in 1..Len(Digits) : Digits[d] = c) - 1
IsSpace(c) == c = " "

RECURSIVE SkipSpace(_)
SkipSpace(text) ==
  IF text # << >> /\ IsSpace(Head(text)) THEN SkipSpace(Tail(text)) ELSE text

\* text.trim()
Trim(text) == Reverse(SkipSpace(Reverse(SkipSpace(text))))

RECURSIVE ReadDigits(_, _)
ReadDigits(text, value) ==
  IF text # << >> /\ IsDigit(Head(text))
    THEN ReadDigits(Tail(text), 10 * value + DigitValue(Head(text)))
    ELSE value

NaN == [nan |-> TRUE, value |-> 0]
ParseInt(text) ==
  LET t == SkipSpace(text)
      signed == t # << >> /\ Head(t) \in {"-", "+"}
      body == IF signed THEN Tail(t) ELSE t
  IN IF body = << >> \/ ~IsDigit(Head(body)) THEN NaN
     ELSE [nan |-> FALSE,
           value |-> IF signed /\ Head(t) = "-"
                       THEN 0 - ReadDigits(body, 0) ELSE ReadDigits(body, 0)]

\* number || 0
OrZero(number) == IF number.nan THEN 0 ELSE number.value

\* An emoji image of the reactions container: name is its data-name (Null:
\* none), reactionEl says whether an enclosing reaction element is found,
\* countEl whether that holds a reactionCount element, text is the text of
\* the reactionCount element.
Marker(name, reactionEl, countEl, text) ==
  [name |-> name, reactionEl |-> reactionEl, countEl |-> countEl, text |-> text]

\* the count extractReactions reads for a marker
MarkerCount(marker) ==
  IF marker.reactionEl /\ marker.countEl
    THEN OrZero(ParseInt(Trim(marker.text))) ELSE 0

\* the forEach of extractReactions over the emoji images
RECURSIVE ReactionsOf(_, _, _)
ReactionsOf(markers, i, reactions) ==
  IF i > Len(markers) THEN reactions
  ELSE ReactionsOf(markers, i + 1,
         IF markers[i].name = Null \/ MarkerCount(markers[i]) = 0
           THEN reactions
           ELSE Append(reactions, [emoji |-> markers[i].name,
                                   count |-> MarkerCount(markers[i])]))

\* extractReactions(element): element.container says whether a reactions
\* container is found, element.markers are its emoji images
ExtractReactions(element) ==
  IF ~element.container THEN << >> ELSE ReactionsOf(element.markers, 1, << >>)

\* the message elements extractReactions is applied to
MaxMarkers == 2
CountTexts ==
  { << >>, << "0" >>, << "1" >>, << "2" >>, << " ", "1", " " >>, << "1", "2" >>,
    << "1", ".", "2", "K" >>, << "x" >>, << "-", "1" >>, << "-", "0" >>, << "-" >> }
Markers ==
  { Marker(name, TRUE, TRUE, text) : name \in {Null, "up", "ok"}, text \in CountTexts }
    \cup { Marker("up", FALSE, FALSE, << >>), Marker("ok", TRUE, FALSE, << >>) }
ReactionElements ==
  { [container |-> FALSE, markers |-> << >>] } \cup
  UNION { { [container |-> TRUE, markers |-> markers] : markers \in [1..n -> Markers] }
          : n \in 0..MaxMarkers }

ReactionsInit ==
  /\ url = [t \in Tabs |-> IF t = 1 THEN "chA" ELSE "home"]
  /\ scr = [t \in Tabs |-> NewScraper(url[t])]
  /\ outbox = [t \in Tabs |-> << >>]
  /\ crawlState = IdleCrawlState
  /\ startReq = [r \in StartSlots |-> IdleReq]
  /\ stopReq = IdleStop
  /\ db = [servers |-> {}, channels |-> [c \in ChannelIds |-> NoChannel],
           users |-> {}, messages |-> {}, failed |-> FALSE]
  /\ now = 0
  /\ events = 0
  /\ popup = 0
  /\ saveResp = NoSaveResponse
  /\ \E element \in ReactionElements : call = [op |-> "element", element |-> element]

\* extractReactions called on an element
CallExtractReactions ==
  /\ call.op = "element"
  /\ call' = [op |-> "reactions", element |-> call.element,
              result |-> ExtractReactions(call.element)]
  /\ UNCHANGED << url, scr, outbox, crawlState, startReq, stopReq, db, now, events, popup,
                  saveResp >>

ReactionsSpec == ReactionsInit /\ [][CallExtractReactions]_vars

\* ------------------------------------------------------------- scroll steps
\* The containers scrollUp() is called on: a position of up to MaxScroll
\* pixels, in fifths of a pixel where the browser keeps fractions, and a
\* visible height of up to MaxClient pixels; container FALSE: the page has
\* no scroll container.
MaxScroll == 3
MaxClient == 3
Positions(snap) ==
  {p \in 0..(100 * MaxScroll) : p % (IF snap = "none" THEN 20 ELSE 100) = 0}

ScrollInit ==
  /\ url = [t \in Tabs |-> IF t = 1 THEN "chA" ELSE "home"]
  /\ scr = [t \in Tabs |-> NewScraper(url[t])]
  /\ outbox = [t \in Tabs |-> << >>]
  /\ crawlState = IdleCrawlState
  /\ startReq = [r \in StartSlots |-> IdleReq]
  /\ stopReq = IdleStop
  /\ db = [servers |-> {}, channels |-> [c \in ChannelIds |-> NoChannel],
           users |-> {}, messages |-> {}, failed |-> FALSE]
  /\ now = 0
  /\ events = 0
  /\ popup = 0
  /\ saveResp = NoSaveResponse
  /\ \E snap \in SnapModes, container \in BOOLEAN, clientHeight \in 0..MaxClient :
       \E scrollTop \in Positions(snap) :
         call = [op |-> "container", container |-> container, snap |-> snap,
                 scrollTop |-> scrollTop, clientHeight |-> clientHeight]

\* scrollUp() called on a page
CallScrollUp ==
  /\ call.op = "container"
  /\ call' = IF ~call.container
               THEN [call EXCEPT !.op = "scrollUp"] @@
                    [returned |-> FALSE, newScroll |-> call.scrollTop, before |-> call.scrollTop]
               ELSE [call EXCEPT !.op = "scrollUp",
                                 !.scrollTop = SetScrollTop(NewScroll(@, call.clientHeight),
                                                            call.snap)] @@
                    [returned |-> TRUE, newScroll |-> NewScroll(call.scrollTop, call.clientHeight),
                     before |-> call.scrollTop]
  /\ UNCHANGED << url, scr, outbox, crawlState, startReq, stopReq, db, now, events, popup,
                  saveResp >>

ScrollSpec == ScrollInit /\ [][CallScrollUp]_vars

\* ---------------------------------------------------------------------- C13
\* C13: stopping is idempotent.  stopCrawling() on a scraper that is not
\* crawling returns the scraper as it is and sends nothing, so a stopCrawl
\* message delivered to such a tab leaves every scraper and every outbox as
\* they were, and stopping twice is stopping once.  A stopCrawl request that
\* finds crawlState.isCrawling false is answered 'No crawler is running' and
\* changes neither crawlState nor the store.
C13_StopIdempotent ==
  /\ [](\A t \in Tabs :
          LET once == StopCrawling(scr[t], "external")
          IN /\ ~scr[t].isCrawling => once = [s |-> scr[t], out |-> << >>]
             /\ StopCrawling(once.s, "external") = [s |-> once.s, out |-> << >>])
  /\ [][/\ (StopDelivered /\ ~scr[stopReq.tab].isCrawling) =>
             (scr' = scr /\ outbox' = outbox)
        /\ (StopBegin /\ ~crawlState.isCrawling) =>
             /\ crawlState' = crawlState
             /\ db' = db
             /\ stopReq'.pc = "done" /\ stopReq'.resp = "notRunning"]_vars

\* a stopCrawl message reached a content script that was not crawling
C13_Witness ==
  /\ stopReq.pc = "replied"
  /\ HasContentScript(url[stopReq.tab])
  /\ ~scr[stopReq.tab].isCrawling
  /\ scr[stopReq.tab].stoppedBy # "external"
  /\ crawlState.isCrawling

\* ---------------------------------------------------------------------- C14
\* C14: last_crawled_at of a stored channel changes only in a step in which a
\* crawl session stops by itself or the stopCrawl handler writes its stamp;
\* the saveToIndexedDB upsert of the snapshot taken at crawl start leaves it
\* as it is.
C14_StampOnlyAtEnd ==
  [][\A c \in ChannelIds :
       db'.channels[c].last_crawled_at # db.channels[c].last_crawled_at =>
         /\ StopGotChannel \/ \E t \in Tabs : SelfStop(t)
         /\ \A t \in Tabs : ~HandleSave(t)]_vars

C16_StoreChannelMerges ==
  [][call'.op = "storeChannel" =>
       LET id == call'.id
           channel == call'.channel
       IN /\ db'.channels[id].exists
          /\ \A f \in ChannelFields :
               db'.channels[id][f] = IF f \in DOMAIN channel THEN channel[f]
                                     ELSE db.channels[id][f]
          /\ \A c \in ChannelIds \ {id} : db'.channels[c] = db.channels[c]]_vars

\* the channel was upserted with a timestamp and then again without one
C16_Witness ==
  /\ call.op = "storeChannel"
  /\ "last_crawled_at" \notin DOMAIN call.channel
  /\ "channel_name" \in DOMAIN call.channel
  /\ db.channels[call.id].last_crawled_at = MaxTime
  /\ db.channels[call.id].server_id = "s1"
  /\ "server_id" \notin DOMAIN call.channel

\* ---------------------------------------------------------------------- C18
\* the records of the last batch call that carry a key
ValidOf(c) ==
  {i \in 1..Len(c.batch) :
     IF c.op = "storeUsers" THEN c.batch[i] # NoUser ELSE c.batch[i].message_id # 0}

\* C18: a batch write in which the put of one record fails still calls put
\* on every record that carries a key, rejects with the count of the records
\* whose put failed (one), and leaves every other such record in the store.
C18_BatchKeepsGoing ==
  [][(call'.op \in {"storeUsers", "storeMessages"} /\ call'.k # 0) =>
       /\ call'.attempted = ValidOf(call')
       /\ call'.rejected
       /\ call'.errors = 1
       /\ \A i \in ValidOf(call') \ {call'.k} :
            IF call'.op = "storeUsers"
              THEN call'.batch[i] \in db'.users
              ELSE \E m \in db'.messages : m.message_id = call'.batch[i].message_id]_vars

\* ---------------------------------------------------------------------- C17
\* C17: when the tab of the running crawl is closed, or loads a page whose
\* URL differs from its last one and is outside discord.com, crawlState
\* becomes the idle state; every other tab event (another tab, no crawl
\* running, a reload, a page inside discord.com) leaves crawlState as it is.
\* No tab event writes to the store.
C17_TabEvents ==
  [][\A t \in Tabs :
       (CloseTab(t) \/ \E u \in Urls : Navigate(t, u)) =>
         /\ db' = db
         /\ crawlState' =
              IF /\ crawlState.isCrawling
                 /\ crawlState.currentTabId = t
                 /\ \/ url'[t] = Closed
                    \/ url'[t] # url[t] /\ ~IncludesDiscord(url'[t])
                THEN IdleCrawlState
                ELSE crawlState]_vars

\* the tab was closed in the middle of its crawl, and no stop was requested
C17_Witness ==
  \E t \in Tabs :
    /\ url[t] = Closed
    /\ outbox[t] # << >>
    /\ stopReq.pc = "idle"
    /\ crawlState = IdleCrawlState
    /\ \E r \in StartSlots : startReq[r].tab = t /\ startReq[r].resp = "ok"

\* ---------------------------------------------------------------------- C19
\* the messages tab t's content script sends in this step
Sent(t) == SubSeq(outbox'[t], Len(outbox[t]) + 1, Len(outbox'[t]))

\* the scraper of tab t is the same page's before and after this step
SamePage(t) == ~CloseTab(t) /\ \A u \in Urls : ~Navigate(t, u)

\* C19: the content script pushes a status update when its session starts
\* (with the ids and names of the channel and the count 0), one with the
\* processed count for every multiple of 10 the count of the session
\* reaches, and one with isCrawling false when its session stops while the
\* page lives on.
C19_StatusPushed ==
  [][\A t \in Tabs :
       LET before == IF scr[t].isCrawling
                       THEN Cardinality(scr[t].processedMessageIds) ELSE 0
           after == Cardinality(scr'[t].processedMessageIds)
       IN
       /\ (~scr[t].isCrawling /\ scr'[t].isCrawling) =>
            /\ Len(Sent(t)) >= 1
            /\ Sent(t)[1] = StatusMsg("undef", ExtractIdsFromUrl(url[t]).channel_id,
                                      ExtractChannelName(url[t]),
                                      ExtractServerName(url[t]), 0)
       /\ (scr'[t].isCrawling /\ SamePage(t)) =>
            \A n \in (before + 1)..after :
              n % StatusEvery = 0 => InSeq(PushMsg(n), Sent(t))
       /\ (scr[t].isCrawling /\ ~scr'[t].isCrawling /\ SamePage(t)) =>
            Sent(t) = << StatusMsg("false", Null, Null, Null, -1) >>]_vars

\* a session whose processed count reached 10 was stopped
C19_Witness ==
  \E t \in Tabs :
    /\ ~scr[t].isCrawling
    /\ scr[t].stoppedBy \in {"external", "self"}
    /\ Cardinality(scr[t].processedMessageIds) >= StatusEvery
    /\ crawlState.messageCount >= StatusEvery

\* ---------------------------------------------------------------------- C20
\* C20: an export of a snapshot whose messages are missing or empty fails
\* with 'No data to export', has created no table and returns no artifact,
\* whatever users and channels the snapshot holds.
C20_EmptyExportFails ==
  (call.op = "export" /\ Len(ListOf(call.data, "messages")) = 0) =>
    /\ call.result.error = "No data to export"
    /\ ~call.result.created
    /\ call.result.tables = NoTables
    /\ ~call.result.artifact

\* a snapshot with users and channels and no messages field was exported
C20_Witness ==
  /\ call.op = "export"
  /\ "messages" \notin DOMAIN call.data
  /\ Len(ListOf(call.data, "users")) = 2
  /\ Len(ListOf(call.data, "channels")) = 2

\* ---------------------------------------------------------------------- C21
\* the channel ids of the snapshot's channels that carry both ids
ExportedChannelIds(data) ==
  {ListOf(data, "channels")[i].channel_id : i \in
     {k \in 1..Len(ListOf(data, "channels")) :
        /\ ListOf(data, "channels")[k].server_id # Null
        /\ ListOf(data, "channels")[k].channel_id # Null}}

\* the user ids of the snapshot's users
ExportedUserIds(data) ==
  {ListOf(data, "users")[i].user_id : i \in 1..Len(ListOf(data, "users"))} \ {NoUser}

\* message i of the snapshot has a message_id and a channel that is exported
Eligible(data, i) ==
  /\ data.messages[i].message_id # 0
  /\ data.messages[i].channel_id \in ExportedChannelIds(data)

\* the source channel_id of a row of the channels table
SourceChannel(result, r) == result.tables.channels[r].url[2]

\* the row of the messages table comes from message i of the snapshot
RowOf(result, row, msg) ==
  /\ row.message_id = msg.message_id
  /\ row.user_id = msg.user_id
  /\ row.channel_id \in 1..Len(result.tables.channels)
  /\ SourceChannel(result, row.channel_id) = msg.channel_id

\* the round-trip example: 2 users, 1 channel, 3 messages, one of them of a
\* channel the snapshot does not hold
RoundTrip ==
  [users |-> << User(1), User(2) >>,
   channels |-> << Channel("s1", "cA", "name-cA") >>,
   messages |-> << MessageOf(1, "cA", 1), MessageOf(2, "cA", 2), MessageOf(3, "cB", 1) >>]

\* C21 as claimed: the messages table has as many rows as the snapshot has
\* messages with a message_id and an exported channel, one row each, and no
\* row of a channel that is not exported (checked where foreign keys are
\* not enforced, so that no insert fails for its user_id).
C21_RowPerMessage ==
  (call.op = "export" /\ call.result.created /\ ~call.fk) =>
    LET msgs == call.data.messages
        rows == call.result.tables.messages
        eligible == {i \in 1..Len(msgs) : Eligible(call.data, i)}
    IN /\ Len(rows) = Cardinality(eligible)
       /\ \A i \in eligible : \E r \in 1..Len(rows) : RowOf(call.result, rows[r], msgs[i])
       /\ \A r \in 1..Len(rows) : \E i \in eligible : RowOf(call.result, rows[r], msgs[i])

\* C21 as amended: the messages table holds one row for each pair of
\* exported channel and message_id among the messages that have a
\* message_id, an exported channel and, where foreign keys are enforced, a
\* user_id that is null or an exported user's: the row of the first such
\* message, in the order of the snapshot.  A message of a channel that is
\* not exported has no row.  The round-trip example yields 2 message rows,
\* 1 channel row and 2 user rows.
C21_RowPerDistinctMessage ==
  (call.op = "export" /\ call.result.created) =>
    LET msgs == call.data.messages
        rows == call.result.tables.messages
        candidate == {i \in 1..Len(msgs) :
                        /\ Eligible(call.data, i)
                        /\ call.fk => msgs[i].user_id \in
                                        ExportedUserIds(call.data) \cup {NoUser}}
        kept == {i \in candidate : \A j \in candidate :
                   (j < i) => \/ msgs[j].message_id # msgs[i].message_id
                              \/ msgs[j].channel_id # msgs[i].channel_id}
    IN /\ Len(rows) = Cardinality(kept)
       /\ \A i \in kept : \E r \in 1..Len(rows) : RowOf(call.result, rows[r], msgs[i])
       /\ \A r \in 1..Len(rows) : \E i \in kept : RowOf(call.result, rows[r], msgs[i])
       /\ \A r, q \in 1..Len(rows) : \A i, j \in kept :
            (r < q /\ RowOf(call.result, rows[r], msgs[i])
                   /\ RowOf(call.result, rows[q], msgs[j])) => i < j
       /\ call.data = RoundTrip =>
            /\ Len(rows) = 2
            /\ Len(call.result.tables.channels) = 1
            /\ Len(call.result.tables.users) = 2
            /\ call.result.error = "none"

\* the round-trip example was exported
C21_Witness ==
  /\ call.op = "export"
  /\ call.data = RoundTrip
  /\ Len(call.result.tables.messages) = 2

\* ---------------------------------------------------------------------- C22
\* C22: an export of a snapshot that holds at least one message and ends
\* with an empty messages table fails with 'No valid messages could be
\* exported' and returns no artifact; an export that fails so was given at
\* least one message, which 'No data to export' never was.
C22_NothingValidFails ==
  call.op = "export" =>
    /\ (Len(ListOf(call.data, "messages")) > 0 /\ Len(call.result.tables.messages) = 0) =>
         /\ call.result.error = "No valid messages could be exported"
         /\ ~call.result.artifact
    /\ call.result.error = "No valid messages could be exported" =>
         Len(ListOf(call.data, "messages")) > 0
    /\ call.result.error = "No data to export" =>
         Len(ListOf(call.data, "messages")) = 0

\* a snapshot whose only messages are of a channel it does not hold
C22_Witness ==
  /\ call.op = "export"
  /\ Len(ListOf(call.data, "messages")) = 2
  /\ Len(call.result.tables.channels) = 1
  /\ ~call.fk
  /\ call.result.error = "No valid messages could be exported"

\* ---------------------------------------------------------------------- C23
\* the channels of the snapshot that carry both ids
ValidChannels(data) ==
  {ListOf(data, "channels")[i] : i \in
     {k \in 1..Len(ListOf(data, "channels")) :
        /\ ListOf(data, "channels")[k].server_id # Null
        /\ ListOf(data, "channels")[k].channel_id # Null}}

TableRank(table) == CASE table = "users" -> 1 [] table = "channels" -> 2 [] OTHER -> 3

\* C23: every insert into users precedes every insert into channels, and
\* those every insert into messages.  The channel_id of a message row is
\* the id of a channels row whose url carries the channel_id of the message
\* the row comes from.  The channels table has one row for each url of a
\* channel that carries server_id and channel_id and no other row, and a
\* message of a channel that appears only without one of the ids has no row.
C23_OrderAndMapping ==
  (call.op = "export" /\ call.result.created) =>
    LET log == call.result.log
        tables == call.result.tables
        msgs == ListOf(call.data, "messages")
    IN /\ \A i, j \in 1..Len(log) : i < j => TableRank(log[i]) <= TableRank(log[j])
       /\ Len(log) = Len(tables.users) + Len(tables.channels) + Len(tables.messages)
       /\ \A r \in 1..Len(tables.messages) :
            /\ tables.messages[r].channel_id \in 1..Len(tables.channels)
            /\ \E i \in 1..Len(msgs) : RowOf(call.result, tables.messages[r], msgs[i])
       /\ {tables.channels[r].url : r \in 1..Len(tables.channels)}
            = {ChannelUrl(c) : c \in ValidChannels(call.data)}
       /\ \A i \in 1..Len(msgs) :
            msgs[i].channel_id \notin ExportedChannelIds(call.data) =>
              \A r \in 1..Len(tables.messages) :
                ~RowOf(call.result, tables.messages[r], msgs[i])

\* messages of channel cA were exported under the second channels row, and
\* a channel without server_id was in the snapshot of another export
C23_Witness ==
  /\ call.op = "export"
  /\ Len(call.result.tables.channels) = 2
  /\ Len(call.result.tables.users) = 2
  /\ \E r \in 1..Len(call.result.tables.messages) :
       call.result.tables.messages[r].channel_id = 2

\* ---------------------------------------------------------------------- C24
\* C24: the user_id of every row of the exported messages table is null or
\* the user_id of a row of the exported users table (checked on the builds
\* that leave foreign keys unenforced, which is what the code gets as it
\* never issues PRAGMA foreign_keys).
C24_UserIntegrity ==
  (call.op = "export" /\ call.result.created /\ ~call.fk) =>
    \A r \in 1..Len(call.result.tables.messages) :
      \/ call.result.tables.messages[r].user_id = NoUser
      \/ InSeq(call.result.tables.messages[r].user_id, call.result.tables.users)

\* ---------------------------------------------------------------------- C25
\* C25: in the tables of an export no two rows of channels have the same
\* url, and no two rows of messages have the same channel_id and message_id.
C25_UniqueRows ==
  call.op = "export" =>
    LET channels == call.result.tables.channels
        messages == call.result.tables.messages
    IN /\ \A q, r \in 1..Len(channels) : channels[q].url = channels[r].url => q = r
       /\ \A q, r \in 1..Len(messages) :
            (/\ messages[q].channel_id = messages[r].channel_id
             /\ messages[q].message_id = messages[r].message_id) => q = r

\* an artifact made from a snapshot that holds a channel twice and a
\* message twice
C25_Witness ==
  /\ call.op = "export" /\ call.result.artifact
  /\ Len(ListOf(call.data, "channels")) = 2 /\ Len(call.result.tables.channels) = 1
  /\ Len(ListOf(call.data, "messages")) = 2 /\ Len(call.result.tables.messages) = 1

\* ---------------------------------------------------------------------- C26
\* the insert of message i of the snapshot is made and throws: its user is
\* missing where foreign keys are enforced, or an earlier message whose
\* insert did not throw has its channel and message_id
InsertFails(data, fk, i) ==
  LET msgs == ListOf(data, "messages")
      dangling(k) == fk /\ msgs[k].user_id \notin ExportedUserIds(data) \cup {NoUser}
  IN /\ Eligible(data, i)
     /\ \/ dangling(i)
        \/ \E j \in 1..(i - 1) :
             /\ Eligible(data, j) /\ ~dangling(j)
             /\ msgs[j].message_id = msgs[i].message_id
             /\ msgs[j].channel_id = msgs[i].channel_id

\* C26: a record whose insert throws is passed over and nothing else is:
\* every user with a user_id has a row of the users table, every channel
\* with both ids has a row of the channels table with its url, every message
\* with a message_id and an exported channel whose own insert does not
\* throw has a row of the messages table, and if there is such a message
\* the export ends without error and yields its artifact.
C26_SkippedAlone ==
  (call.op = "export" /\ call.result.created) =>
    LET msgs == ListOf(call.data, "messages")
        tables == call.result.tables
        inserted == {i \in 1..Len(msgs) :
                       Eligible(call.data, i) /\ ~InsertFails(call.data, call.fk, i)}
    IN /\ \A u \in ExportedUserIds(call.data) : InSeq(u, tables.users)
       /\ \A c \in ValidChannels(call.data) :
            \E r \in 1..Len(tables.channels) : tables.channels[r].url = ChannelUrl(c)
       /\ \A i \in inserted :
            \E r \in 1..Len(tables.messages) : RowOf(call.result, tables.messages[r], msgs[i])
       /\ inserted # {} => (call.result.error = "none" /\ call.result.artifact)

\* the insert of the second message threw, and the third message, the
\* second user and the second channel still got their rows
C26_Witness ==
  /\ call.op = "export" /\ call.result.artifact
  /\ Len(ListOf(call.data, "messages")) = 3
  /\ InsertFails(call.data, call.fk, 2)
  /\ \E r \in 1..Len(call.result.tables.messages) :
       RowOf(call.result, call.result.tables.messages[r], call.data.messages[3])
  /\ Len(ListOf(call.data, "users")) = 2 /\ Len(call.result.tables.users) = 1
  /\ Len(ListOf(call.data, "channels")) = 2 /\ Len(call.result.tables.channels) = 1

\* ---------------------------------------------------------------------- C27
\* C27: no step of an export, whether it ends with an artifact, with an
\* error or with the warning, changes the servers, channels, users or
\* messages store.
C27_ExportReadsOnly ==
  [][(Export \/ GetIndexedDBData \/ ExportClick) =>
       /\ db'.servers = db.servers
       /\ db'.channels = db.channels
       /\ db'.users = db.users
       /\ db'.messages = db.messages]_vars

\* an export of a store that holds messages has failed for want of a
\* channel record, and the store is as it was
C27_Witness ==
  /\ call.op = "export"
  /\ db \in ExportStores /\ db.messages # {}
  /\ call.data.messages = GetAllMessages(db)
  /\ call.result.error = "No valid messages could be exported"

\* ---------------------------------------------------------------------- C28
\* the user_id of the last of the messages that has one, NoUser if none has
LastAuthorOf(messages) ==
  LET known == {k \in 1..Len(messages) : messages[k].user_id # NoUser}
  IN IF known = {} THEN NoUser
     ELSE messages[CHOOSE k \in known : \A j \in known : j <= k].user_id

\* the element of the pass that message k of the pass was parsed from
ElementOf(k) ==
  call.dom[CHOOSE i \in 1..Len(call.dom) :
             call.dom[i].msg = call.acc.messages[k].message_id]

\* C28: in a pass, a message parsed from an element without header has the
\* user_id of the last message before it in the pass that has a user_id,
\* and none if there is no such message; a pass over a header of user 2
\* and an element without header gives both messages user 2.
C28_GroupedAuthor ==
  call.op \in {"extract", "extracted"} =>
    /\ \A k \in 1..Len(call.acc.messages) :
         ~ElementOf(k).hdr =>
           call.acc.messages[k].user_id = LastAuthorOf(SubSeq(call.acc.messages, 1, k - 1))
    /\ (/\ call.op = "extracted"
        /\ call.dom = << [chan |-> 7, msg |-> 1, hdr |-> TRUE, uid |-> 2,
                          throws |-> FALSE],
                         [chan |-> 7, msg |-> 2, hdr |-> FALSE, uid |-> NoUser,
                          throws |-> FALSE] >>
        /\ Len(call.result.messages) = 2)
         => call.result.messages[2].user_id = 2

\* a pass ended in which the third message, without header, followed a
\* header without user id and took its author from the first message
C28_Witness ==
  /\ call.op = "extracted"
  /\ Len(call.result.messages) = 3
  /\ call.dom[1].uid = 2
  /\ call.dom[2].hdr /\ call.dom[2].uid = NoUser
  /\ ~call.dom[3].hdr
  /\ call.result.messages[3].user_id = 2

\* ---------------------------------------------------------------------- C29
\* C29: the iteration over an element that has a header but no user id to
\* resolve, and was not processed before, adds a message without user_id,
\* adds no user, and leaves the last seen author as it was.
C29_UnresolvedHeader ==
  [][(/\ ExtractElement
      /\ call.dom[call.i].hdr /\ call.dom[call.i].uid = NoUser
      /\ call.dom[call.i].msg \notin call.acc.processed) =>
       /\ Len(call'.acc.messages) = Len(call.acc.messages) + 1
       /\ call'.acc.messages[Len(call'.acc.messages)].user_id = NoUser
       /\ call'.acc.messages[Len(call'.acc.messages)].message_id = call.dom[call.i].msg
       /\ call'.acc.users = call.acc.users
       /\ call'.acc.last = call.acc.last]_vars

\* the second element had a header without user id: its message has no
\* user_id, and the last seen author is still the first message's
C29_Witness ==
  /\ call.op = "extract" /\ call.i = 3
  /\ call.dom[1].uid = 1
  /\ call.dom[2].hdr /\ call.dom[2].uid = NoUser
  /\ Len(call.acc.messages) = 2
  /\ call.acc.messages[2].user_id = NoUser
  /\ call.acc.users = << 1 >>
  /\ call.acc.last = 1

\* ---------------------------------------------------------------------- C30
\* the markers of an element that carry a name and a count of at least 1
RECURSIVE Counted(_, _)
Counted(markers, i) ==
  IF i > Len(markers) THEN << >>
  ELSE (IF markers[i].name # Null /\ MarkerCount(markers[i]) >= 1
          THEN << [emoji |-> markers[i].name, count |-> MarkerCount(markers[i])] >>
          ELSE << >>) \o Counted(markers, i + 1)

\* C30: every reaction extracted from an element has a count of at least 1,
\* and the reactions are those of the markers with a name and a count of at
\* least 1, in the order of the markers: a marker with count 0 gives none, a
\* marker with count 1 gives {emoji, count: 1}.
C30_PositiveCounts ==
  (call.op = "reactions" /\ call.element.container) =>
    /\ \A r \in 1..Len(call.result) : call.result[r].count >= 1
    /\ call.result = Counted(call.element.markers, 1)

\* ---------------------------------------------------------------------- C31
\* the processedMessageIds the pass started with
ProcessedAtStart ==
  call.acc.processed \ {call.acc.messages[k].message_id : k \in 1..Len(call.acc.messages)}

\* C31: a pass in which parseMessage throws on some elements ends without
\* exception, and its messages are those of the elements that were not
\* processed before and on which parseMessage does not throw, in the order
\* of the elements.
C31_FailedElementSkipped ==
  call.op = "extracted" =>
    LET parsed == SelectSeq(call.dom,
                    LAMBDA el : ~Throws(el) /\ el.msg \notin ProcessedAtStart)
    IN /\ ~call.acc.threw
       /\ Len(call.result.messages) = Len(parsed)
       /\ \A k \in 1..Len(parsed) : call.result.messages[k].message_id = parsed[k].msg

\* parseMessage threw on the second of three elements, and the pass
\* returned the first and the third
C31_Witness ==
  /\ call.op = "extracted"
  /\ Len(call.dom) = 3
  /\ Throws(call.dom[2])
  /\ Len(call.result.messages) = 2
  /\ call.result.messages[2].message_id = 3

\* ---------------------------------------------------------------------- C32
\* C32: once a scraper has started a crawl on a channel page and the
\* background has handled every message the scraper sent, with no write
\* failing, the store holds the server record and the channel record of
\* that page.
C32_StartStoresServer ==
  \A t \in Tabs :
    (/\ scr[t].isCrawling
     /\ ExtractIdsFromUrl(url[t]).server_id # Null
     /\ outbox[t] = << >>
     /\ ~db.failed) =>
      /\ ExtractIdsFromUrl(url[t]).server_id \in db.servers
      /\ db.channels[ExtractIdsFromUrl(url[t]).channel_id].exists

\* ---------------------------------------------------------------------- C33
\* the settle timer tm of tab t fires in this step
SettleFires(t, tm) ==
  /\ tm.kind = "settle"
  /\ FireSettle(t)
  /\ scr'[t] = SettleCallback(scr[t], url[t], tm.n, tm.c).s

\* C33: a scroll step runs from performScrollCycle to the end of its settle
\* callback.  A step with no other timer pending at its end leaves the
\* counter at 0 when the number of processed ids differs from the one at
\* the start of the step, and else one above its value at the start of the
\* step, whether the step scrolled or was a no-op.
C33_CounterPerStep ==
  [][\A t \in Tabs : \A tm \in BagToSet(scr[t].timers) :
       (SettleFires(t, tm) /\ BagCardinality(scr[t].timers) = 1) =>
         scr'[t].noNewMessagesCount =
           IF Cardinality(scr[t].processedMessageIds) # tm.n THEN 0 ELSE tm.c + 1]_vars

\* ---------------------------------------------------------------------- C34
\* C34: scrollUp() on a page with a scroll container assigns
\* max(0, position - 80% of the visible height) to the position; the
\* position is not negative afterwards, and it is below the one before
\* whenever that was above 0 and the visible height is positive.
C34_ScrollStep ==
  (call.op = "scrollUp" /\ call.returned) =>
    /\ call.newScroll = Max(0, call.before - 80 * call.clientHeight)
    /\ call.scrollTop >= 0
    /\ (call.before > 0 /\ call.clientHeight > 0) => call.scrollTop < call.before

\* a step from 3 pixels with 1 pixel visible, where the browser rounds, and
\* the position went down to 2 pixels
C34_Witness ==
  /\ call.op = "scrollUp" /\ call.returned
  /\ call.snap = "nearest"
  /\ call.before = 300 /\ call.clientHeight = 1
  /\ call.newScroll = 220
  /\ call.scrollTop = 200

\* ---------------------------------------------------------------------- C35
\* C35: a timer chain is live while its 1000 ms timer, one of its
\* performScrollCycle timers or one of its settle timers is pending; no
\* scraper has more than one of these timers pending.
C35_OneTimerChain ==
  \A t \in Tabs : BagCardinality(scr[t].timers) <= 1

\* ---------------------------------------------------------------------- C36
\* the stopCrawl handler sends its response in this step, having found
\* crawlState.isCrawling true when the request came in
StopAnswered ==
  /\ stopReq'.pc = "done"
  /\ \/ stopReq.pc \in {"getChannel", "storeChannel", "sent", "replied"}
     \/ StopBegin /\ crawlState.isCrawling

\* C36: a stopCrawl request that finds crawlState.isCrawling true is not
\* refused, and when its handler responds, the response is success and
\* crawlState is the reset one, whether or not the stamp was written and the
\* content script was reached.
C36_StopAlwaysResets ==
  [][/\ (StopBegin /\ crawlState.isCrawling) => stopReq'.resp # "notRunning"
     /\ StopAnswered =>
          /\ stopReq'.resp = "ok"
          /\ crawlState' = IdleCrawlState]_vars

\* a stop was answered with success after the write of its stamp had failed
C36_Witness ==
  /\ stopReq.pc = "done" /\ stopReq.resp = "ok"
  /\ stopReq.chan # Null /\ ~stopReq.stamped /\ db.failed
  /\ stopReq.tab # 0
  /\ crawlState = IdleCrawlState

\* ---------------------------------------------------------------------- C37
\* the updateCrawlStatus messages with isCrawling false in a queue
StopNotices(q) ==
  SelectSeq(q, LAMBDA m : m.action = "updateCrawlStatus" /\ m.isCrawling = "false")

\* C37: a step in which the scroll loop ends the crawl sends one
\* updateCrawlStatus with isCrawling false, and such a message is only sent
\* by a scraper that stops crawling in that step; the background handling it
\* has crawlState.isCrawling false afterwards, a startCrawl request coming in
\* with crawlState.isCrawling false is not refused as busy, and a
\* crawlStatusChanged goes to the popup only in a step that takes
\* crawlState.isCrawling from true to false.
C37_SelfStopReported ==
  [][/\ \A t \in Tabs :
          /\ SelfStop(t) => Len(StopNotices(outbox'[t])) = Len(StopNotices(outbox[t])) + 1
          /\ Len(StopNotices(outbox'[t])) > Len(StopNotices(outbox[t])) =>
               /\ scr[t].isCrawling /\ ~scr'[t].isCrawling
               /\ Len(StopNotices(outbox'[t])) = Len(StopNotices(outbox[t])) + 1
          /\ (HandleUpdateCrawlStatus(t) /\ Head(outbox[t]).isCrawling = "false") =>
               ~crawlState'.isCrawling
     /\ \A r \in StartSlots :
          (StartBegin(r) /\ ~crawlState.isCrawling) => startReq'[r].resp # "busy"
     /\ popup' # popup =>
          /\ popup' = popup + 1
          /\ crawlState.isCrawling /\ ~crawlState'.isCrawling]_vars

\* the background has handled the notice of a crawl the scroll loop ended,
\* and has told the popup
C37_Witness ==
  \E t \in Tabs :
    /\ scr[t].stoppedBy = "self" /\ ~scr[t].isCrawling
    /\ outbox[t] = << >>
    /\ ~crawlState.isCrawling
    /\ popup = 1

\* ---------------------------------------------------------------------- C38
\* C38 as claimed: while the background's crawl runs in the scraper of its
\* tab, crawlState.messageCount (what getCrawlStatus reports) is at most the
\* number of message ids that scraper has processed, and it is that number
\* once the background has handled all the messages of the tab.
C38_CountIsProcessed ==
  \A t \in Tabs :
    (crawlState.isCrawling /\ crawlState.currentTabId = t /\ scr[t].isCrawling) =>
      /\ crawlState.messageCount <= Cardinality(scr[t].processedMessageIds)
      /\ outbox[t] = << >> =>
           crawlState.messageCount = Cardinality(scr[t].processedMessageIds)

\* ---------------------------------------------------------------------- C39
\* the writes of a saveToIndexedDB request that this step has made
ServerWritten(request) ==
  request.server_id # Null => request.server_id \in db'.servers
ChannelWritten(request) ==
  request.channelId # Null =>
    /\ db'.channels[request.channelId].exists
    /\ db'.channels[request.channelId].channel_name = request.channelName
UsersWritten(request) ==
  \A i \in 1..Len(request.users) :
    request.users[i] # NoUser => request.users[i] \in db'.users
MessagesWritten(request) ==
  \A i \in 1..Len(request.messages) :
    request.messages[i].message_id # 0 => request.messages[i] \in db'.messages

\* C39: the saveToIndexedDB handler writes server, channel, users and
\* messages in this order: when a write fails, the writes before it are made
\* and the stores of the writes after it are left as they were, the response
\* is success false with the error of the failed write, and crawlState is as
\* before; when none fails, all four are made and the response is success.
C39_SaveStopsAtFailure ==
  [][\A t \in Tabs :
       HandleSave(t) =>
         LET request == Head(outbox[t])
             e == saveResp'.error
         IN /\ saveResp'.answered
            /\ saveResp'.success <=> e = Null
            /\ e \in {Null, "server", "channel", "users", "messages"}
            /\ e # Null => crawlState' = crawlState
            /\ e = "server" => db'.channels = db.channels
            /\ e \in {"server", "channel"} => db'.users = db.users
            /\ e \in {"server", "channel", "users"} => db'.messages = db.messages
            /\ e # "server" => ServerWritten(request)
            /\ e \notin {"server", "channel"} => ChannelWritten(request)
            /\ e \notin {"server", "channel", "users"} => UsersWritten(request)
            /\ e = Null => MessagesWritten(request)
            /\ e = "server" => db'.servers = db.servers]_vars

\* a save whose users write failed has been answered: its server and its
\* channel are in the store, none of its messages is, and the crawl state
\* still has no channel name
C39_Witness ==
  /\ saveResp.answered /\ ~saveResp.success /\ saveResp.error = "users"
  /\ db.servers # {} /\ db.messages = {}
  /\ \E c \in ChannelIds : db.channels[c].exists
  /\ crawlState.isCrawling /\ crawlState.messageCount = 0

\* ---------------------------------------------------------------------- C40
\* C40: in the batch extractExistingMessages() returns, the users are the
\* user ids of the batch's messages that are not null, each of them once.
C40_UsersOfBatch ==
  call.op = "extracted" =>
    LET messages == call.result.messages
        users == call.result.users
    IN /\ {users[i] : i \in 1..Len(users)} =
            {messages[k].user_id : k \in 1..Len(messages)} \ {NoUser}
       /\ \A i, j \in 1..Len(users) : users[i] = users[j] => i = j

\* a batch of three messages, two of one author and one of another, and
\* its two users
C40_Witness ==
  /\ call.op = "extracted"
  /\ Len(call.result.messages) = 3
  /\ call.result.messages[1].user_id = 1
  /\ call.result.messages[2].user_id = 1
  /\ call.result.messages[3].user_id = 2
  /\ call.result.users = << 1, 2 >>

====
